---------------------------- MODULE Spec2Model ----------------------------
(***************************************************************************)
(* Model of the mega-sena pool (bolao) closure engine:                     *)
(*   - the bet allocation solver (calculateOptimalBets, calculateBetLevel) *)
(*   - the pattern analyzer and greedy selector (numberSelection)          *)
(*   - the closure procedure closeBolao, run by concurrent attempts        *)
(***************************************************************************)
EXTENDS Integers, Sequences, FiniteSets, TLC

VARIABLES
    \* --- allocation solver applied to one input ---
    totalFunds,     \* the total confirmed funds handed to calculateBetLevel
    betInfo,        \* its result, once computed (betInfo.computed)
    \* --- selectBestNumbers applied to one input ---
    selIn,          \* [candidates, count, strictness]: the arguments of the call
    selPc,          \* "start", "greedy" (the greedy pass is over), "done"
    selGreedy,      \* [selected, skipped] after the greedy pass
    selOut,         \* the returned array, once selPc = "done"
    \* --- validateSelection applied to one list of numbers and to a permutation ---
    valIn,          \* [numbers, permuted]: the list and a permutation of it
    valPc,          \* "start", "done"
    valOut,         \* [report, permutedReport]: the two results
    \* --- closeBolao run by two attempts ---
    db,             \* the databases: db[w] holds the tables of one pool
    clock,          \* the time new Date() returns
    att,            \* att[a]: the local variables and position of attempt a
    requests,       \* the requests of participants and admins served so far
    \* --- the number grid of the dashboard page ---
    selectedNumbers,\* the page's selectedNumbers array
    apiCall         \* the request the last handler handed to api.selectNumbers

betVars == << totalFunds, betInfo >>

selVars == << selIn, selPc, selGreedy, selOut >>

valVars == << valIn, valPc, valOut >>

closeVars == << db, clock, att, requests >>

dashVars == << selectedNumbers, apiCall >>

vars == << betVars, selVars, valVars, closeVars, dashVars >>

(***************************************************************************)
(* Bounds of the model                                                     *)
(***************************************************************************)
\* Largest total funds given to the allocation solver.
MaxFunds == 1010

\* Resolution of the random source: Math.random() takes the values x / RandDen.
RandDen == 3

\* Length of the sequences of random draws tried (each is used cyclically).
RandLen == 3

\* Candidates beyond count in the short candidate lists given to selectBestNumbers.
CandExtra == 2

\* Latest time a closure record is stamped with; the clock starts at 1.
MaxClock == 2

\* The most disturbances of one behaviour: queries of closeBolao answered with an
\* error and requests of participants and admins served, counted together.
MaxDisturbances == 1

\* Largest list of probe numbers given to validateSelection.
MaxProbeLen == 9

(***************************************************************************)
(* Generic helpers                                                         *)
(***************************************************************************)
Max2(a, b) == IF a >= b THEN a ELSE b

Min2(a, b) == IF a <= b THEN a ELSE b

\* Array.prototype.sort is stable: an element's place in the result is one more
\* than the number of elements that go before it: those the comparator puts
\* before it, and the earlier ones it is not put before.  before holds the pairs
\* << i, j >> of indices for which the comparator puts s[i] before s[j].
StableSort(s, before) ==
    LET n == Len(s)
        places == { << Cardinality({ j \in 1..n :
                                      /\ j # i
                                      /\ \/ << j, i >> \in before
                                         \/ j < i /\ << i, j >> \notin before }) + 1, i >> :
                    i \in 1..n }
        sorted == [k \in 1..n |-> s[(CHOOSE p \in places : p[1] = k)[2]]]
    IN SubSeq(sorted, 1, n)

\* The array with the elements f[1], ..., f[n].
ArrayOf(f, n) == SubSeq(f, 1, n)

(***************************************************************************)
(* closure.js: the table of bet levels and the DP solver                   *)
(***************************************************************************)
\* CONFIG.BET_LEVELS: allowed bet sizes with their cost.
BET_LEVELS ==
    << [numbers |-> 6, cost |-> 6],
       [numbers |-> 7, cost |-> 42],
       [numbers |-> 8, cost |-> 168],
       [numbers |-> 9, cost |-> 504] >>

\* dp[amount] === null
NullEntry == [isNull |-> TRUE, bets |-> 0, lastBet |-> 0, prevAmount |-> 0]

\* dp[0] = { bets: 0 }
ZeroEntry == [isNull |-> FALSE, bets |-> 0, lastBet |-> 0, prevAmount |-> 0]

\* The dp table is kept as a sequence: dp[amount] of the code is tbl[amount + 1].
DpAt(tbl, amount) == tbl[amount + 1]

RECURSIVE LevelLoopFirstFit(_, _, _, _, _)
\* An inner loop that keeps the first usable level and never compares bet counts.
LevelLoopFirstFit(tbl, betLevels, amount, i, cur) ==
    IF i > Len(betLevels) THEN cur
    ELSE LET level == betLevels[i]
             usable == level.cost <= amount /\ ~DpAt(tbl, amount - level.cost).isNull
             nxt == IF usable /\ cur.isNull
                    THEN [isNull |-> FALSE,
                          bets |-> DpAt(tbl, amount - level.cost).bets + 1,
                          lastBet |-> i, prevAmount |-> amount - level.cost]
                    ELSE cur
         IN LevelLoopFirstFit(tbl, betLevels, amount, i + 1, nxt)

RECURSIVE LevelLoop(_, _, _, _, _)
\* The inner loop over betLevels for one amount; cur is dp[amount] so far.
LevelLoop(tbl, betLevels, amount, i, cur) ==
    IF i > Len(betLevels) THEN cur
    ELSE LET level == betLevels[i]
             usable == level.cost <= amount /\ ~DpAt(tbl, amount - level.cost).isNull
             newBets == DpAt(tbl, amount - level.cost).bets + 1
             better == usable /\ (cur.isNull \/ newBets < cur.bets)
             nxt == IF better
                    THEN [isNull |-> FALSE, bets |-> newBets, lastBet |-> i,
                          prevAmount |-> amount - level.cost]
                    ELSE cur
         IN LevelLoop(tbl, betLevels, amount, i + 1, nxt)

RECURSIVE FillDP(_, _, _, _)
\* The outer loop: amount = lo .. hi in ascending order (the range is split in
\* halves, lower half first, which visits the amounts in the loop's order).
FillDP(tbl, betLevels, lo, hi) ==
    IF lo > hi THEN tbl
    ELSE IF lo = hi THEN Append(tbl, LevelLoop(tbl, betLevels, lo, 1, NullEntry))
    ELSE LET mid == (lo + hi) \div 2
             lower == FillDP(tbl, betLevels, lo, mid)
         IN IF Len(lower) = mid + 1            \* always: one entry per amount 0..mid
            THEN FillDP(lower, betLevels, mid + 1, hi)
            ELSE lower

\* One iteration of a selection that minimizes the bet count only, ignoring the spend.
BestAmountStepMinBets(tbl, amount, funds, st) ==
    LET e == DpAt(tbl, amount)
        take == ~e.isNull /\ e.bets > 0
                /\ (st.bestAmount = 0 \/ e.bets < st.bestBets)
    IN IF take THEN [bestAmount |-> amount, bestBets |-> e.bets, stop |-> FALSE]
       ELSE st

\* One iteration of the scan for the best achievable amount.
\* st = [bestAmount, bestBets, stop]; bestBets is unused while bestAmount = 0.
BestAmountStep(tbl, amount, funds, st) ==
    LET e == DpAt(tbl, amount)
        take == ~e.isNull /\ e.bets > 0
                /\ (st.bestAmount = 0 \/ amount > st.bestAmount
                    \/ (amount = st.bestAmount /\ e.bets < st.bestBets))
    IN IF take
       THEN [bestAmount |-> amount, bestBets |-> e.bets, stop |-> (amount = funds)]
       ELSE st

RECURSIVE BestAmountLoop(_, _, _, _, _)
\* for (amount = hi; amount >= lo; amount--), in descending order, until break.
BestAmountLoop(tbl, hi, lo, funds, st) ==
    IF hi < lo \/ st.stop THEN st
    ELSE IF hi = lo THEN BestAmountStep(tbl, hi, funds, st)
    ELSE LET mid == (lo + hi) \div 2
             upper == BestAmountLoop(tbl, hi, mid + 1, funds, st)
         IN IF upper.stop THEN upper
            ELSE BestAmountLoop(tbl, mid, lo, funds, upper)

RECURSIVE Backtrack(_, _, _)
\* Walks the predecessors; dist[i] counts the bets of betLevels[i].
Backtrack(tbl, current, dist) ==
    IF current > 0 /\ ~DpAt(tbl, current).isNull
    THEN LET e == DpAt(tbl, current)
         IN Backtrack(tbl, e.prevAmount, [dist EXCEPT ![e.lastBet] = @ + 1])
    ELSE dist

RECURSIVE SortDescByNumbers(_)
\* Array.sort((a, b) => b.numbers - a.numbers) on entries of distinct numbers.
SortDescByNumbers(S) ==
    IF S = {} THEN << >>
    ELSE LET m == CHOOSE x \in S : \A y \in S : y.numbers <= x.numbers
         IN << m >> \o SortDescByNumbers(S \ {m})

\* The returned plan, from the counts dist[i] of the bets of betLevels[i].
PlanOf(dist, best, funds, betLevels) ==
    [betDistribution |->
         SortDescByNumbers({ [numbers |-> betLevels[i].numbers,
                              cost |-> betLevels[i].cost, count |-> dist[i]] :
                             i \in { j \in 1..Len(betLevels) : dist[j] > 0 } }),
     totalBets |-> best.bestBets,
     totalCost |-> best.bestAmount,
     remainingFunds |-> funds - best.bestAmount]

\* The backtracking from the best amount.
Reconstruct(tbl, best, funds, betLevels) ==
    PlanOf(Backtrack(tbl, best.bestAmount, [i \in 1..Len(betLevels) |-> 0]),
           best, funds, betLevels)

\* The scan for the best achievable amount over the filled table.
BestOf(tbl, funds, betLevels) ==
    Reconstruct(tbl,
                BestAmountLoop(tbl, funds, 1, funds,
                               [bestAmount |-> 0, bestBets |-> 0, stop |-> FALSE]),
                funds, betLevels)

calculateOptimalBets(funds, betLevels) ==
    BestOf(FillDP(<< ZeroEntry >>, betLevels, 1, funds), funds, betLevels)

\* Fields a result of calculateBetLevel leaves undefined are given as 0 / << >> / "".
NoBetInfo ==
    [computed |-> FALSE, betLevel |-> 0, error |-> "", totalFunds |-> 0, betCost |-> 0,
     remainingFunds |-> 0, betDistribution |-> << >>, totalBets |-> 0,
     surplusBets |-> 0, surplusFunds |-> 0]

RECURSIVE SumCounts(_, _)
\* otherBets.reduce((sum, b) => sum + b.count, 0), from index i on.
SumCounts(dist, i) == IF i > Len(dist) THEN 0 ELSE dist[i].count + SumCounts(dist, i + 1)

\* A result that counts every bet as a surplus bet.
BetLevelOfAllSurplus(funds, betDistribution, totalBets, remainingFunds) ==
    IF Len(betDistribution) = 0
    THEN [NoBetInfo EXCEPT !.computed = TRUE, !.error = "Erro ao calcular",
                           !.totalFunds = funds]
    ELSE [computed |-> TRUE,
          betLevel |-> betDistribution[1].numbers,
          error |-> "",
          totalFunds |-> funds,
          betCost |-> betDistribution[1].cost * betDistribution[1].count,
          remainingFunds |-> remainingFunds,
          betDistribution |-> betDistribution,
          totalBets |-> totalBets,
          surplusBets |-> SumCounts(betDistribution, 1),
          surplusFunds |-> funds - betDistribution[1].cost * betDistribution[1].count]

\* The result of calculateBetLevel once the plan is known.
BetLevelOf(funds, betDistribution, totalBets, remainingFunds) ==
    IF Len(betDistribution) = 0
    THEN [NoBetInfo EXCEPT !.computed = TRUE, !.error = "Erro ao calcular",
                           !.totalFunds = funds]
    ELSE [computed |-> TRUE,
          betLevel |-> betDistribution[1].numbers,
          error |-> "",
          totalFunds |-> funds,
          betCost |-> betDistribution[1].cost * betDistribution[1].count,
          remainingFunds |-> remainingFunds,
          betDistribution |-> betDistribution,
          totalBets |-> totalBets,
          surplusBets |-> SumCounts(betDistribution, 2),
          surplusFunds |-> funds - betDistribution[1].cost * betDistribution[1].count]

\* The same, from the record calculateOptimalBets returns.
BetLevelFrom(funds, optimal) ==
    BetLevelOf(funds, optimal.betDistribution, optimal.totalBets,
               optimal.remainingFunds)

\* The error text is kept by its first two words; breakdown is left out.
calculateBetLevel(funds) ==
    IF funds < 6
    THEN [NoBetInfo EXCEPT !.computed = TRUE, !.error = "Fundos insuficientes",
                           !.totalFunds = funds]
    ELSE BetLevelFrom(funds, calculateOptimalBets(funds, BET_LEVELS))

(***************************************************************************)
(* numberSelection.js (the later, stricter version): pattern analysis      *)
(* Arrays of numbers are sequences.  A ratio r of the code is kept exactly *)
(* as a pair of integers; Math.round(r * 100) / 100 is kept in hundredths. *)
(***************************************************************************)
SeqToSet(s) == { s[i] : i \in 1..Len(s) }

Includes(s, x) == \E i \in 1..Len(s) : s[i] = x

\* [...numbers].sort((a, b) => a - b)
SortAsc(s) ==
    StableSort(s, { p \in (1..Len(s)) \X (1..Len(s)) : s[p[1]] < s[p[2]] })

\* Math.round((num / den) * 100), for num >= 0 and 0 < den < 200, as IEEE-754
\* doubles compute it.  The product is on the same side of a half as the exact
\* value, except for the quotient 23/40: (23 / 40) * 100 is 57.49999999999999,
\* which rounds to 57 where the exact 57.5 would round to 58.
RoundHundredths(num, den) ==
    IF 40 * num = 23 * den
    THEN 57
    ELSE (200 * num + den) \div (2 * den)

\* The closing of a run of consecutive numbers: pushed to sequences or to pairs.
CloseRun(st, endValue) ==
    IF st.currentSequence >= 3
    THEN [st EXCEPT !.sequences = Append(@, [start |-> st.sequenceStart,
                                             end |-> endValue,
                                             length |-> st.currentSequence])]
    ELSE IF st.currentSequence = 2
    THEN [st EXCEPT !.pairs = Append(@, [start |-> st.sequenceStart,
                                         end |-> endValue,
                                         length |-> st.currentSequence])]
    ELSE st

RECURSIVE ConsecutiveLoop(_, _, _)
\* for (let i = 1; i < sorted.length; i++) with 0-based i; here i is 1-based.
ConsecutiveLoop(sorted, i, st) ==
    IF i > Len(sorted) THEN st
    ELSE IF sorted[i] = sorted[i - 1] + 1
    THEN ConsecutiveLoop(sorted, i + 1,
            [st EXCEPT !.currentSequence = @ + 1,
                       !.maxSequence = Max2(@, st.currentSequence + 1)])
    ELSE ConsecutiveLoop(sorted, i + 1,
            [CloseRun(st, sorted[i - 1]) EXCEPT !.currentSequence = 1,
                                                !.sequenceStart = sorted[i]])

\* A run rule without the repeated-pairs clause.
RunIssueNoPairs(maxSequence, pairCount) == maxSequence >= 3

\* A run rule with the repeated-pairs clause only.
RunIssuePairsOnly(maxSequence, pairCount) == pairCount > 1

\* Issue if: 3+ consecutive OR multiple pairs of consecutive.
RunIssue(maxSequence, pairCount) == maxSequence >= 3 \/ pairCount > 1

\* The scan of a sorted array for its runs, the last run closed after the loop.
ScanRuns(sorted) ==
    IF Len(sorted) = 0
    THEN [maxSequence |-> 1, currentSequence |-> 1, sequences |-> << >>,
          pairs |-> << >>, sequenceStart |-> 0]
    ELSE CloseRun(ConsecutiveLoop(sorted, 2,
                      [maxSequence |-> 1, currentSequence |-> 1, sequences |-> << >>,
                       pairs |-> << >>, sequenceStart |-> sorted[1]]),
                  sorted[Len(sorted)])

\* The returned analysis, from the state the scan ends in.
RunReport(st) ==
    [hasIssue |-> RunIssue(st.maxSequence, Len(st.pairs)),
     maxSequence |-> st.maxSequence,
     sequences |-> st.sequences,
     pairs |-> st.pairs,
     pairCount |-> Len(st.pairs)]

\* A scan of the numbers in the order given, without the sort.
hasConsecutiveIssueUnsorted(numbers) == RunReport(ScanRuns(numbers))

hasConsecutiveIssue(numbers) == RunReport(ScanRuns(SortAsc(numbers)))

IsEven(n) == n % 2 = 0

\* A balance test on the rounded ratio.
getParityBalanceRounded(numbers) ==
    LET evenCount == Len(SelectSeq(numbers, IsEven))
        len == Len(numbers)
    IN [evenCount |-> evenCount,
        oddCount |-> len - evenCount,
        ratio |-> RoundHundredths(evenCount, len),
        isBalanced |-> /\ RoundHundredths(evenCount, len) >= 30
                       /\ RoundHundredths(evenCount, len) <= 70]

\* ratio is Math.round(ratio * 100) / 100 in hundredths; isBalanced uses the
\* unrounded ratio: ratio >= 0.3 && ratio <= 0.7.
getParityBalance(numbers) ==
    LET evenCount == Len(SelectSeq(numbers, IsEven))
        len == Len(numbers)
    IN [evenCount |-> evenCount,
        oddCount |-> len - evenCount,
        ratio |-> RoundHundredths(evenCount, len),
        isBalanced |-> 10 * evenCount >= 3 * len /\ 10 * evenCount <= 7 * len]

InLow(n) == n >= 1 /\ n <= 20

InMid(n) == n >= 21 /\ n <= 40

InHigh(n) == n >= 41 /\ n <= 60

Max3(a, b, c) == Max2(a, Max2(b, c))

\* Math.min(...Object.values(ranges).filter(v => v > 0)); not used when none is > 0.
MinPositive3(a, b, c) ==
    LET S == { v \in { a, b, c } : v > 0 }
    IN IF S = {} THEN 0 ELSE CHOOSE v \in S : \A w \in S : v <= w

\* A distribution test with the rule of six numbers for seven numbers too.
getDecadeDistributionTwoTiers(numbers) ==
    LET low == Len(SelectSeq(numbers, InLow))
        mid == Len(SelectSeq(numbers, InMid))
        high == Len(SelectSeq(numbers, InHigh))
        usedRanges == Cardinality({ r \in 1..3 : << low, mid, high >>[r] > 0 })
        maxInRange == Max3(low, mid, high)
        minInRange == MinPositive3(low, mid, high)
        betSize == Len(numbers)
    IN [ranges |-> << low, mid, high >>,
        diversity |-> usedRanges,
        isWellDistributed |->
            IF betSize >= 8
            THEN usedRanges = 3 /\ minInRange >= 2 /\ 10 * maxInRange <= 6 * betSize
            ELSE usedRanges >= 2 /\ 10 * maxInRange <= 7 * betSize,
        minCoverage |-> minInRange,
        maxConcentration |-> RoundHundredths(maxInRange, betSize)]

getDecadeDistribution(numbers) ==
    LET low == Len(SelectSeq(numbers, InLow))
        mid == Len(SelectSeq(numbers, InMid))
        high == Len(SelectSeq(numbers, InHigh))
        usedRanges == Cardinality({ r \in 1..3 : << low, mid, high >>[r] > 0 })
        maxInRange == Max3(low, mid, high)
        minInRange == MinPositive3(low, mid, high)
        betSize == Len(numbers)
        isWellDistributed ==
            IF betSize >= 8
            THEN usedRanges = 3 /\ minInRange >= 2 /\ 10 * maxInRange <= 6 * betSize
            ELSE IF betSize = 7
            THEN usedRanges >= 2 /\ minInRange >= 2 /\ 100 * maxInRange <= 65 * betSize
            ELSE usedRanges >= 2 /\ 10 * maxInRange <= 7 * betSize
    IN [ranges |-> << low, mid, high >>,
        diversity |-> usedRanges,
        isWellDistributed |-> isWellDistributed,
        minCoverage |-> minInRange,
        maxConcentration |-> RoundHundredths(maxInRange, betSize)]

IsMultipleOf5(n) == n % 5 = 0

IsMultipleOf10(n) == n % 10 = 0

\* An analysis of the multiples that reports the multiples of 10 only.
getMultiplesAnalysisTensOnly(numbers) ==
    LET m5 == Len(SelectSeq(numbers, IsMultipleOf5))
        m10 == Len(SelectSeq(numbers, IsMultipleOf10))
        len == Len(numbers)
    IN [multiplesOf5 |-> m5,
        multiplesOf10 |-> m10,
        ratio5 |-> RoundHundredths(m5, len),
        hasIssue |-> m10 > 2]

getMultiplesAnalysis(numbers) ==
    LET m5 == Len(SelectSeq(numbers, IsMultipleOf5))
        m10 == Len(SelectSeq(numbers, IsMultipleOf10))
        len == Len(numbers)
    IN [multiplesOf5 |-> m5,
        multiplesOf10 |-> m10,
        ratio5 |-> RoundHundredths(m5, len),
        hasIssue |-> 10 * m5 > 4 * len \/ m10 > 2]

\* A score whose penalty for repeated pairs does not grow with their number.
scoreSelectionQualityFlatPairs(numbers) ==
    LET consecutive == hasConsecutiveIssue(numbers)
        parity == getParityBalance(numbers)
        distribution == getDecadeDistribution(numbers)
        multiples == getMultiplesAnalysis(numbers)
        score == 100
                 - (IF consecutive.maxSequence >= 5 THEN 40
                    ELSE IF consecutive.maxSequence = 4 THEN 25
                    ELSE IF consecutive.maxSequence = 3 THEN 15 ELSE 0)
                 - (IF consecutive.pairCount > 1 THEN 15 ELSE 0)
                 - (IF parity.isBalanced THEN 0
                    ELSE IF parity.ratio < 20 \/ parity.ratio > 80 THEN 20 ELSE 10)
                 - (IF distribution.diversity = 1 THEN 40
                    ELSE IF distribution.diversity = 2
                    THEN (IF distribution.maxConcentration > 70 THEN 20
                          ELSE IF distribution.maxConcentration > 60 THEN 10 ELSE 5)
                    ELSE 0)
                 - (IF multiples.multiplesOf10 > 2 THEN 15 ELSE 0)
                 - (IF multiples.ratio5 > 50 THEN 10 ELSE 0)
    IN Max2(0, Min2(100, score))

scoreSelectionQuality(numbers) ==
    LET consecutive == hasConsecutiveIssue(numbers)
        parity == getParityBalance(numbers)
        distribution == getDecadeDistribution(numbers)
        multiples == getMultiplesAnalysis(numbers)
        runPenalty == IF consecutive.maxSequence >= 5 THEN 40
                      ELSE IF consecutive.maxSequence = 4 THEN 25
                      ELSE IF consecutive.maxSequence = 3 THEN 15
                      ELSE 0
        pairPenalty == IF consecutive.pairCount > 1
                       THEN (consecutive.pairCount - 1) * 15 ELSE 0
        parityPenalty == IF parity.isBalanced THEN 0
                         ELSE IF parity.ratio < 20 \/ parity.ratio > 80 THEN 20
                         ELSE 10
        decadePenalty == IF distribution.diversity = 1 THEN 40
                         ELSE IF distribution.diversity = 2
                         THEN (IF distribution.maxConcentration > 70 THEN 20
                               ELSE IF distribution.maxConcentration > 60 THEN 10
                               ELSE 5)
                         ELSE 0
        multiplesPenalty == (IF multiples.multiplesOf10 > 2 THEN 15 ELSE 0)
                            + (IF multiples.ratio5 > 50 THEN 10 ELSE 0)
        score == 100 - runPenalty - pairPenalty - parityPenalty - decadePenalty
                     - multiplesPenalty
    IN Max2(0, Min2(100, score))

\* A severity that is high from a run of three on.
ConsecutiveSeverityFromThree(consecutive) ==
    IF consecutive.maxSequence >= 3 THEN "high"
    ELSE IF consecutive.pairCount > 1 THEN "medium"
    ELSE "undefined"

\* The severity and message of the consecutive issue; undefined when no branch
\* assigns them.
ConsecutiveSeverity(consecutive) ==
    IF consecutive.maxSequence >= 4 THEN "high"
    ELSE IF consecutive.maxSequence = 3 THEN "medium"
    ELSE IF consecutive.pairCount > 1 THEN "medium"
    ELSE "undefined"

\* A message is kept as the values its template is filled with.
ConsecutiveMessage(consecutive) ==
    IF consecutive.maxSequence >= 4 THEN << "sequence", consecutive.maxSequence >>
    ELSE IF consecutive.maxSequence = 3 THEN << "sequence", 3 >>
    ELSE IF consecutive.pairCount > 1 THEN << "pairs", consecutive.pairCount >>
    ELSE << "undefined" >>

\* The issue pushed for each failed analysis, in the order of the pushes.
IssuesOf(consecutive, parity, distribution, multiples) ==
    (IF consecutive.hasIssue
     THEN << [type |-> "consecutive",
              severity |-> ConsecutiveSeverity(consecutive),
              message |-> ConsecutiveMessage(consecutive),
              data |-> [sequences |-> consecutive.sequences,
                        pairs |-> consecutive.pairs]] >>
     ELSE << >>)
    \o (IF ~parity.isBalanced
        THEN << [type |-> "parity",
                 severity |-> IF parity.ratio < 20 \/ parity.ratio > 80
                              THEN "medium" ELSE "low",
                 message |-> << parity.evenCount, parity.oddCount >>,
                 data |-> parity] >>
        ELSE << >>)
    \o (IF ~distribution.isWellDistributed
        THEN << [type |-> "distribution",
                 severity |-> IF distribution.diversity = 1 THEN "high" ELSE "low",
                 message |-> << distribution.diversity >>,
                 data |-> distribution.ranges] >>
        ELSE << >>)
    \o (IF multiples.hasIssue
        THEN << [type |-> "multiples",
                 severity |-> IF multiples.multiplesOf10 > 2 THEN "medium" ELSE "low",
                 message |-> << multiples.multiplesOf5, multiples.multiplesOf10 >>,
                 data |-> multiples] >>
        ELSE << >>)

\* return { isValid: quality >= 60, issues, quality }
ValidationOf(issues, quality) ==
    [isValid |-> quality >= 60, issues |-> issues, quality |-> quality]

validateSelection(numbers) ==
    ValidationOf(IssuesOf(hasConsecutiveIssue(numbers), getParityBalance(numbers),
                          getDecadeDistribution(numbers),
                          getMultiplesAnalysis(numbers)),
                 scoreSelectionQuality(numbers))

(***************************************************************************)
(* numberSelection.js: the greedy selector and its random fallback         *)
(* Math.random() is a draw x / RandDen with x in 0..RandDen-1; a call      *)
(* reads its draws from a sequence rnd, used cyclically; d counts the      *)
(* draws made so far.                                                      *)
(***************************************************************************)
\* Math.floor(Math.random() * len), as 0-based index.
RandomIndex(rnd, d, len) == (rnd[(d % Len(rnd)) + 1] * len) \div RandDen

\* pool.splice(idx, 1) with a 0-based idx.
Splice(pool, idx) == SubSeq(pool, 1, idx) \o SubSeq(pool, idx + 2, Len(pool))

wouldCreateConsecutive(selected, candidate) ==
    hasConsecutiveIssue(SortAsc(Append(selected, candidate))).hasIssue

wouldMaintainParity(selected, candidate, targetCount) ==
    LET temp == Append(selected, candidate)
        evenCount == Len(SelectSeq(temp, IsEven))
    IN IF 2 * Len(temp) < targetCount THEN TRUE          \* progress < 0.5
       ELSE 10 * evenCount >= 2 * Len(temp) /\ 10 * evenCount <= 8 * Len(temp)

\* A decade check that is applied from the first pick on.
wouldMaintainDistributionFromFirst(selected, candidate, targetCount) ==
    LET temp == Append(selected, candidate)
        maxInRange == Max3(Len(SelectSeq(temp, InLow)), Len(SelectSeq(temp, InMid)),
                           Len(SelectSeq(temp, InHigh)))
    IN IF targetCount >= 8 THEN 10 * maxInRange <= 6 * Len(temp)
       ELSE IF targetCount = 7 THEN 100 * maxInRange <= 65 * Len(temp)
       ELSE 10 * maxInRange <= 7 * Len(temp)

wouldMaintainDistribution(selected, candidate, targetCount) ==
    LET temp == Append(selected, candidate)
        maxInRange == Max3(Len(SelectSeq(temp, InLow)), Len(SelectSeq(temp, InMid)),
                           Len(SelectSeq(temp, InHigh)))
    IN IF 2 * Len(temp) < targetCount THEN TRUE          \* progress < 0.5
       ELSE IF targetCount >= 8 THEN 10 * maxInRange <= 6 * Len(temp)
       ELSE IF targetCount = 7 THEN 100 * maxInRange <= 65 * Len(temp)
       ELSE 10 * maxInRange <= 7 * Len(temp)

\* A target that is two per range whatever the count.
TargetPerRangeOfSix(count) == << 2, 2, 2 >>

\* targetPerRange as << low, mid, high >>
TargetPerRange(count) ==
    IF count >= 9 THEN << 3, 3, 3 >>
    ELSE IF count = 8 THEN << 3, 3, 2 >>
    ELSE IF count = 7 THEN << 2, 2, 3 >>
    ELSE << 2, 2, 2 >>

RECURSIVE DrawLoopNoSplice(_, _, _)
\* A draw loop that leaves the drawn number in the pool.
DrawLoopNoSplice(st, attempts, rnd) ==
    LET idx == RandomIndex(rnd, st.d, Len(st.pool))
    IN IF attempts + 1 < 10 /\ Len(st.pool) > 0
          /\ wouldCreateConsecutive(st.selected, st.pool[idx + 1])
       THEN DrawLoopNoSplice([st EXCEPT !.d = @ + 1], attempts + 1, rnd)
       ELSE [selected |-> Append(st.selected, st.pool[idx + 1]),
             pool |-> st.pool, d |-> st.d + 1]

RECURSIVE DrawLoop(_, _, _)
\* do { draw; splice; attempts++ } while (attempts < 10 && pool.length > 0 &&
\* wouldCreateConsecutive(selected, candidate)); selected.push(candidate).
\* st = [selected, pool, d]; entered with pool.length > 0.
DrawLoop(st, attempts, rnd) ==
    LET idx == RandomIndex(rnd, st.d, Len(st.pool))
    IN IF attempts + 1 < 10 /\ Len(st.pool) - 1 > 0
          /\ wouldCreateConsecutive(st.selected, st.pool[idx + 1])
       THEN DrawLoop([st EXCEPT !.pool = Splice(@, idx), !.d = @ + 1],
                     attempts + 1, rnd)
       ELSE [selected |-> Append(st.selected, st.pool[idx + 1]),
             pool |-> Splice(st.pool, idx), d |-> st.d + 1]

RECURSIVE RangeLoop(_, _, _, _)
\* for (let i = 0; i < target && pool.length > 0; i++) for one range.
RangeLoop(st, i, target, rnd) ==
    IF i < target /\ Len(st.pool) > 0
    THEN RangeLoop(DrawLoop(st, 0, rnd), i + 1, target, rnd)
    ELSE st

\* The next range's pool.
WithPool(st, pool) == [st EXCEPT !.pool = pool]

RECURSIVE FillLoop(_, _, _, _)
\* while (selected.length < count && available.length > 0) { ... }
FillLoop(st, available, count, rnd) ==
    IF Len(st.selected) < count /\ Len(available) > 0
    THEN LET remaining == SelectSeq(available, LAMBDA n : ~Includes(st.selected, n))
         IN IF Len(remaining) = 0 THEN st.selected
            ELSE FillLoop([st EXCEPT
                             !.selected =
                                 Append(@, remaining[RandomIndex(rnd, st.d,
                                                                 Len(remaining)) + 1]),
                             !.d = @ + 1],
                          available, count, rnd)
    ELSE st.selected

\* Array.from({ length: 60 }, (_, i) => i + 1)
OneToSixty == [i \in 1..60 |-> i]

\* The three ranges in turn, then the fill, then the sort.
DrawByRange(available, target, count, rnd) ==
    SortAsc(FillLoop(
        RangeLoop(WithPool(
            RangeLoop(WithPool(
                RangeLoop([selected |-> << >>, pool |-> SelectSeq(available, InLow),
                           d |-> 0], 0, target[1], rnd),
                SelectSeq(available, InMid)), 0, target[2], rnd),
            SelectSeq(available, InHigh)), 0, target[3], rnd),
        available, count, rnd))

\* A generator that draws from all sixty numbers.
generateRandomWithDistributionFromAll(count, exclude, rnd) ==
    DrawByRange(OneToSixty, TargetPerRange(count), count, rnd)

generateRandomWithDistribution(count, exclude, rnd) ==
    DrawByRange(SelectSeq(OneToSixty, LAMBDA n : ~Includes(exclude, n)),
                TargetPerRange(count), count, rnd)

\* The comparator of the candidate sort; votes = -1 stands for an undefined votes
\* field.  TRUE when a must come before b, i.e. the comparator is negative.
CandidateBefore(a, b) ==
    IF a.votes # -1 /\ b.votes # -1 /\ b.votes # a.votes
    THEN a.votes > b.votes
    ELSE a.score > b.score

\* [...candidates].sort(...)
SortCandidates(candidates) ==
    StableSort(candidates,
               { p \in (1..Len(candidates)) \X (1..Len(candidates)) :
                    CandidateBefore(candidates[p[1]], candidates[p[2]]) })

\* A greedy loop that does not check the runs.
SkipReasonNoRunCheck(selected, num, count, strictness) ==
    IF strictness # "low" /\ ~wouldMaintainDistribution(selected, num, count)
    THEN "distribution"
    ELSE IF strictness = "high" /\ ~wouldMaintainParity(selected, num, count)
    THEN "parity"
    ELSE ""

\* The reason the greedy loop skips num, or "" when it selects it.
SkipReason(selected, num, count, strictness) ==
    IF strictness # "low" /\ wouldCreateConsecutive(selected, num) THEN "consecutive"
    ELSE IF strictness # "low" /\ ~wouldMaintainDistribution(selected, num, count)
    THEN "distribution"
    ELSE IF strictness = "high" /\ ~wouldMaintainParity(selected, num, count)
    THEN "parity"
    ELSE ""

\* The body of the greedy loop for num, given the reason to skip it.
GreedyStep(st, num, reason) ==
    IF reason = "" THEN [st EXCEPT !.selected = Append(@, num)]
    ELSE IF reason = "included" THEN st
    ELSE [st EXCEPT !.skipped = Append(@, [num |-> num, reason |-> reason])]

RECURSIVE GreedyLoop(_, _, _, _, _)
\* for (const candidate of sorted) { ... }; st = [selected, skipped].
GreedyLoop(sorted, i, count, strictness, st) ==
    IF i > Len(sorted) \/ Len(st.selected) = count THEN st
    ELSE GreedyLoop(sorted, i + 1, count, strictness,
             GreedyStep(st, sorted[i].number,
                        IF Includes(st.selected, sorted[i].number) THEN "included"
                        ELSE SkipReason(st.selected, sorted[i].number, count,
                                        strictness)))

\* A greedy pass that takes the candidates in the order they were handed over.
GreedyPassUnsorted(candidates, count, strictness) ==
    GreedyLoop(candidates, 1, count, strictness,
               [selected |-> << >>, skipped |-> << >>])

\* The greedy pass of selectBestNumbers: sort, then pick in order.
GreedyPass(candidates, count, strictness) ==
    GreedyLoop(SortCandidates(candidates), 1, count, strictness,
               [selected |-> << >>, skipped |-> << >>])

\* A tail of selectBestNumbers that returns the picks in the order they were made.
FinishSelectionUnsorted(greedy, count, rnd) ==
    IF Len(greedy.selected) < count
    THEN [numbers |-> generateRandomWithDistribution(count, greedy.selected, rnd),
          fallback |-> TRUE]
    ELSE [numbers |-> greedy.selected, fallback |-> FALSE]

\* The tail of selectBestNumbers: the random fallback when the greedy pass fell
\* short, then the sort.  fallback records which branch was taken.
FinishSelection(greedy, count, rnd) ==
    IF Len(greedy.selected) < count
    THEN [numbers |-> SortAsc(generateRandomWithDistribution(count, greedy.selected,
                                                            rnd)),
          fallback |-> TRUE]
    ELSE [numbers |-> SortAsc(greedy.selected), fallback |-> FALSE]

selectBestNumbers(candidates, count, strictness, rnd) ==
    FinishSelection(GreedyPass(candidates, count, strictness), count, rnd).numbers

(***************************************************************************)
(* closure.js: the stored tables and the queries closeBolao makes          *)
(* A database is a record of tables, each a sequence of rows in insertion  *)
(* order; null is << >>.                                                   *)
(***************************************************************************)
\* CONFIG.BOLAO_STATUS and CONFIG.PAYMENT_STATUS
OPEN == "open"

CLOSED == "closed"

CONFIRMED == "confirmed"

\* What a query is answered with: { data, error: null } or { data: null, error }.
\* The null data and the null error are << >> and "".
Answered(data) == [data |-> data, error |-> ""]

Refused(error) == [data |-> << >>, error |-> error]

\* .from('participations') ... .eq('payment_status', CONFIG.PAYMENT_STATUS.CONFIRMED)
ConfirmedParticipations(base, bolaoId) ==
    SelectSeq(base.participations,
              LAMBDA p : p.bolao_id = bolaoId /\ p.payment_status = CONFIRMED)

RECURSIVE SumQuotas(_, _)
\* participations.reduce((sum, p) => sum + (p.quota_quantity || 1), 0), from i on.
SumQuotas(parts, i) ==
    IF i > Len(parts) THEN 0
    ELSE (IF parts[i].quota_quantity = 0 THEN 1 ELSE parts[i].quota_quantity)
         + SumQuotas(parts, i + 1)

\* return { quotaValue, confirmedCount, totalFunds, ...betInfo, status }: a later
\* key replaces an earlier one (in f @@ g the left one wins).
FinancialSummary(quotaValue, confirmedCount, funds, status) ==
    [status |-> status]
    @@ calculateBetLevel(funds)
    @@ [quotaValue |-> quotaValue, confirmedCount |-> confirmedCount,
        totalFunds |-> funds]

\* .from('bolao').select('quota_value, status').eq('id', bolaoId).single(): an
\* error when no row has the id.
BolaoById(base, bolaoId) ==
    IF base.bolao.id = bolaoId THEN Answered(base.bolao) ELSE Refused("PGRST116")

\* getBolaoFinancials(bolaoId), given the answers of its two queries: the error
\* it throws, or the summary it returns.  quota_value is stored as a whole
\* amount, so parseFloat gives that integer.
getBolaoFinancials(bolaoAnswer, partAnswer) ==
    IF bolaoAnswer.error # ""
    THEN [thrown |-> bolaoAnswer.error, value |-> << >>]
    ELSE IF partAnswer.error # ""
    THEN [thrown |-> partAnswer.error, value |-> << >>]
    ELSE [thrown |-> "",
          value |-> FinancialSummary(bolaoAnswer.data.quota_value,
                                     Len(partAnswer.data),
                                     SumQuotas(partAnswer.data, 1)
                                         * bolaoAnswer.data.quota_value,
                                     bolaoAnswer.data.status)]

RECURSIVE RowNumbers(_, _, _)
\* rows.map(r => r.number), from index i on.
RowNumbers(rows, i, acc) ==
    IF i > Len(rows) THEN acc ELSE RowNumbers(rows, i + 1, Append(acc, rows[i].number))

\* The number_selections(number) a participation row is joined with.
SelectionsOf(base, participationId) ==
    RowNumbers(SelectSeq(base.number_selections,
                         LAMBDA r : r.participation_id = participationId), 1, << >>)

RECURSIVE JoinParticipants(_, _, _, _)
JoinParticipants(base, parts, i, acc) ==
    IF i > Len(parts) THEN acc
    ELSE JoinParticipants(base, parts, i + 1,
             Append(acc, [id |-> parts[i].id, users |-> parts[i].users,
                          number_selections |-> SelectionsOf(base, parts[i].id)]))

\* Step 3: the confirmed participants, each with its selections.
ReadParticipantRows(base, bolaoId) ==
    JoinParticipants(base, ConfirmedParticipations(base, bolaoId), 1, << >>)

RECURSIVE TransformParticipants(_, _, _)
\* participants.map(p => ({ userId, name, selectedNumbers: [...].sort() }))
TransformParticipants(participants, i, acc) ==
    IF i > Len(participants) THEN acc
    ELSE TransformParticipants(participants, i + 1,
             Append(acc, [userId |-> participants[i].users.id,
                          name |-> participants[i].users.name,
                          selectedNumbers |-> SortAsc(participants[i].number_selections)]))

\* The participation a selection row belongs to.
ParticipationOf(base, row) ==
    CHOOSE p \in SeqToSet(base.participations) : p.id = row.participation_id

\* Step 4: the selection rows of confirmed participants, in table order.
ConfirmedSelections(base, bolaoId) ==
    SelectSeq(base.number_selections,
              LAMBDA r : LET p == ParticipationOf(base, r)
                         IN p.bolao_id = bolaoId /\ p.payment_status = CONFIRMED)

RECURSIVE UserNamesFor(_, _, _, _, _)
\* The names pushed under num, in row order.
UserNamesFor(base, rows, num, i, acc) ==
    IF i > Len(rows) THEN acc
    ELSE UserNamesFor(base, rows, num, i + 1,
             IF rows[i].number = num
             THEN Append(acc, ParticipationOf(base, rows[i]).users.name)
             ELSE acc)

\* numberToUsers: a key for every selected number, its value the list of names.
\* rows is the data of the step-4 answer; with null data (<< >>) the map stays {}.
BuildNumberToUsers(base, rows) ==
    [num \in { rows[i].number : i \in 1..Len(rows) } |->
        UserNamesFor(base, rows, num, 1, << >>)]

(***************************************************************************)
(* closure.js: number generation for the final bets                        *)
(***************************************************************************)
\* getScores(bolaoId, false): the stored score rows of the pool.
getScores(base, bolaoId) ==
    SelectSeq(base.number_scores, LAMBDA s : s.bolao_id = bolaoId)

\* scores.map(s => ({ number: s.number, score: s.final_score })); votes stay undefined.
ScoreItems(rows) ==
    ArrayOf([i \in 1..Len(rows) |-> [number |-> rows[i].number,
                                     score |-> rows[i].final_score, votes |-> -1]],
            Len(rows))

RECURSIVE SumScores(_, _, _)
\* The sum of the scores of items[lo..hi].
SumScores(items, lo, hi) ==
    IF lo > hi THEN 0
    ELSE IF lo = hi THEN items[lo].score
    ELSE LET mid == (lo + hi) \div 2
         IN SumScores(items, lo, mid) + SumScores(items, mid + 1, hi)

\* The 1-based index of the item in whose share of the total weight target falls
\* (the last item when none does).
WeightedPick(items, target) ==
    LET hits == { i \in 1..Len(items) : target < SumScores(items, 1, i) }
    IN IF hits = {} THEN Len(items)
       ELSE CHOOSE i \in hits : \A j \in hits : i <= j

RECURSIVE WeightedDraws(_, _, _, _, _)
WeightedDraws(items, count, rnd, d, acc) ==
    IF Len(acc) = count \/ Len(items) = 0 THEN acc
    ELSE LET target == (rnd[(d % Len(rnd)) + 1] * SumScores(items, 1, Len(items)))
                           \div RandDen
             idx == WeightedPick(items, target)
         IN WeightedDraws(Splice(items, idx - 1), count, rnd, d + 1,
                          Append(acc, items[idx].number))

\* A draw without replacement of count numbers, each with probability
\* proportional to its score.
generateWeightedRandomNumbers(items, count, rnd) ==
    SortAsc(WeightedDraws(items, count, rnd, 0, << >>))

\* .order('final_score', { ascending: false })
FinalScoreBefore(a, b) == a.final_score > b.final_score

\* .from('number_scores') ... .in('number', availableNumbers)
\*   .order('final_score', { ascending: false }).limit(poolSize)
\* Rows of equal score come in table order.
ScoreQuery(base, bolaoId, availableNumbers, poolSize) ==
    LET rows == SelectSeq(base.number_scores,
                          LAMBDA s : s.bolao_id = bolaoId /\ s.number \in availableNumbers)
        ordered == StableSort(rows, { p \in (1..Len(rows)) \X (1..Len(rows)) :
                                         FinalScoreBefore(rows[p[1]], rows[p[2]]) })
    IN SubSeq(ordered, 1, Min2(poolSize, Len(ordered)))

\* scoreMap[num] || 0, scoreMap being filled from the rows in their order.
ScoreOfNumber(scores, num) ==
    LET rows == SelectSeq(scores, LAMBDA s : s.number = num)
    IN IF Len(rows) = 0 THEN 0 ELSE rows[Len(rows)].final_score

\* for (let num = 1; num <= 60; num++) ranked.push({ number, votes, score })
RankedList(scores, selections) ==
    ArrayOf([num \in 1..60 |->
                [number |-> num,
                 votes |-> Len(SelectSeq(selections, LAMBDA r : r.number = num)),
                 score |-> ScoreOfNumber(scores, num)]], 60)

\* The democratic consolidation, given the answers of its two queries (the
\* selections of confirmed participants, then the score rows): the error it
\* throws, or the result of selectBestNumbers on the top of the ranking by
\* votes, then score, with the branch it took.
consolidateFinalNumbers(selAnswer, scoreAnswer, targetCount, rnd) ==
    IF selAnswer.error # ""
    THEN [thrown |-> selAnswer.error, numbers |-> << >>, fallback |-> FALSE]
    ELSE IF scoreAnswer.error # ""
    THEN [thrown |-> scoreAnswer.error, numbers |-> << >>, fallback |-> FALSE]
    ELSE [thrown |-> ""]
         @@ FinishSelection(
                GreedyPass(SubSeq(SortCandidates(RankedList(scoreAnswer.data,
                                                            selAnswer.data)),
                                  1, Min2(targetCount * 4, 60)),
                           targetCount, "high"),
                targetCount, rnd)

\* if (scores && scores.length >= k): the answer of the score query has rows
\* enough for the smart selection.
EnoughScores(answer, k) == answer.error = "" /\ Len(answer.data) >= k

\* The numbers from the answer of the score query: the smart selection when it
\* has at least k rows, the weighted random draw over scoresData (the rows of
\* getScores) otherwise.
NumbersFromScores(k, answer, scoresData, rnd) ==
    IF EnoughScores(answer, k)
    THEN [path |-> "score", thrown |-> ""]
         @@ FinishSelection(GreedyPass(ScoreItems(answer.data), k, "high"), k, rnd)
    ELSE [path |-> "weighted", thrown |-> "", fallback |-> TRUE,
          numbers |-> generateWeightedRandomNumbers(ScoreItems(scoresData), k, rnd)]

\* usedNumbers after "if (availableNumbers.length < k) usedNumbers.clear()".
AfterReset(k, usedNumbers) ==
    IF Cardinality((1..60) \ usedNumbers) < k THEN {} ELSE usedNumbers

\* The score query of a score-based branch: over the unused numbers, limited to
\* poolMax rows.
PoolQuery(base, bolaoId, k, poolMax, usedNumbers) ==
    ScoreQuery(base, bolaoId, (1..60) \ AfterReset(k, usedNumbers),
               Min2(poolMax, Cardinality((1..60) \ AfterReset(k, usedNumbers))))

\* The score-based branches of the bet loop (lines 229-276 with k = betInfo.numbers
\* and a pool of 4 * k; lines 279-324 with k = 6 and a pool of 24), given the
\* answer of the score query and the rows of getScores.  The used numbers are
\* forgotten when fewer than k numbers are unused.
ScoreBasedBet(k, usedNumbers, answer, scoresData, rnd) ==
    [usedNumbers |-> AfterReset(k, usedNumbers)]
    @@ NumbersFromScores(k, answer, scoresData, rnd)

\* if (betInfo.numbers >= 7) if (isFirstLargeBet && betInfo.numbers === betLevel)
IsDemocratic(financials, bet, isFirstLargeBet) ==
    bet.numbers >= 7 /\ isFirstLargeBet /\ bet.numbers = financials.betLevel

\* The number of numbers of a score-based bet and the limit of its pool.
SizeOf(bet) == IF bet.numbers >= 7 THEN bet.numbers ELSE 6

PoolMaxOf(bet) == IF bet.numbers >= 7 THEN bet.numbers * 4 ELSE 24

\* One iteration of the inner bet loop, for the group bet of the distribution, up
\* to the choice of numbers, given the answers of the queries it awaits (first:
\* the selections of consolidateFinalNumbers or the score query; second: the
\* scores of consolidateFinalNumbers or of getScores): the error thrown, or the
\* numbers, the branch that produced them (path, fallback) and the loop
\* variables it leaves.
NextBet(financials, bet, isFirstLargeBet, usedNumbers, first, second, rnd) ==
    IF IsDemocratic(financials, bet, isFirstLargeBet)
    THEN [path |-> "democratic", usedNumbers |-> usedNumbers,
          isFirstLargeBet |-> FALSE]
         @@ consolidateFinalNumbers(first, second, bet.numbers, rnd)
    ELSE [isFirstLargeBet |-> isFirstLargeBet]
         @@ ScoreBasedBet(SizeOf(bet), usedNumbers, first, second.data, rnd)

\* Lines 327-345: the bet is pushed and its numbers marked as used; the loop
\* counters move on.  attempt holds the local variables, r is the bet chosen.
PushBet(attempt, bet, r) ==
    [attempt EXCEPT
       !.finalBetsArray = Append(@, [type |-> << bet.numbers, "numeros" >>,
                                     numbers |-> r.numbers, cost |-> bet.cost]),
       !.paths = Append(@, r.path),
       !.usedBefore = Append(@, r.usedNumbers),
       !.usedNumbers = r.usedNumbers \cup SeqToSet(r.numbers),
       !.isFirstLargeBet = r.isFirstLargeBet,
       !.usedRandom = @ \/ r.fallback,
       !.group = IF attempt.made + 1 = bet.count THEN @ + 1 ELSE @,
       !.made = IF attempt.made + 1 = bet.count THEN 0 ELSE @ + 1]

\* A closure record that leaves out who closed the pool.
BuildClosureDataUnsigned(bolaoId, bolao, closedAt, adminUserId, financials, participantsData, numberToUsers, finalBetsArray) ==
    [bolaoId |-> bolaoId,
     bolaoName |-> bolao.name,
     closedAt |-> closedAt,
     totalFunds |-> financials.totalFunds,
     quotaValue |-> financials.quotaValue,
     participantCount |-> Len(participantsData),
     participants |-> participantsData,
     numberToUsers |-> numberToUsers,
     financials |-> [betLevel |-> financials.betLevel,
                     betDistribution |-> financials.betDistribution,
                     totalBets |-> financials.totalBets],
     finalBets |-> finalBetsArray]

\* A closure record that leaves out the participants' selections.
BuildClosureDataBetsOnly(bolaoId, bolao, closedAt, adminUserId, financials, participantsData, numberToUsers, finalBetsArray) ==
    [bolaoId |-> bolaoId,
     bolaoName |-> bolao.name,
     closedAt |-> closedAt,
     closedBy |-> adminUserId,
     totalFunds |-> financials.totalFunds,
     quotaValue |-> financials.quotaValue,
     participantCount |-> Len(participantsData),
     financials |-> [betLevel |-> financials.betLevel,
                     betDistribution |-> financials.betDistribution,
                     totalBets |-> financials.totalBets],
     finalBets |-> finalBetsArray]

\* Step 6: the closure record.
BuildClosureData(bolaoId, bolao, closedAt, adminUserId, financials, participantsData, numberToUsers, finalBetsArray) ==
    [bolaoId |-> bolaoId,
     bolaoName |-> bolao.name,
     closedAt |-> closedAt,
     closedBy |-> adminUserId,
     totalFunds |-> financials.totalFunds,
     quotaValue |-> financials.quotaValue,
     participantCount |-> Len(participantsData),
     participants |-> participantsData,
     numberToUsers |-> numberToUsers,
     financials |-> [betLevel |-> financials.betLevel,
                     betCost |-> financials.betCost,
                     surplusBets |-> financials.surplusBets,
                     remainingFunds |-> financials.remainingFunds,
                     betDistribution |-> financials.betDistribution,
                     totalBets |-> financials.totalBets],
     finalBets |-> finalBetsArray]

\* Step 7: the digest of the serialized record, taken as collision-free: equal
\* digests exactly for equal records.
generateClosureHash(closureData) == << "sha256", closureData >>

(***************************************************************************)
(* numberSelection.js, the earlier version (lines 1-370 of the file)       *)
(* getParityBalance and getMultiplesAnalysis are the same in both versions *)
(* and the run scan differs only by not keeping the pairs.                 *)
(***************************************************************************)
\* The earlier hasConsecutiveIssue: only runs of three or more are an issue.
hasConsecutiveIssueEarlier(numbers) ==
    [hasIssue |-> ScanRuns(SortAsc(numbers)).maxSequence >= 3,
     maxSequence |-> ScanRuns(SortAsc(numbers)).maxSequence,
     sequences |-> ScanRuns(SortAsc(numbers)).sequences]

\* The earlier getDecadeDistribution: one rule for every size.
getDecadeDistributionEarlier(numbers) ==
    LET low == Len(SelectSeq(numbers, InLow))
        mid == Len(SelectSeq(numbers, InMid))
        high == Len(SelectSeq(numbers, InHigh))
        usedRanges == Cardinality({ r \in 1..3 : << low, mid, high >>[r] > 0 })
    IN [ranges |-> << low, mid, high >>,
        diversity |-> usedRanges,
        isWellDistributed |->
            usedRanges >= 2 /\ 10 * Max3(low, mid, high) <= 7 * Len(numbers)]

\* The issues the earlier validateSelection pushes.
IssuesOfEarlier(consecutive, parity, distribution, multiples) ==
    (IF consecutive.hasIssue
     THEN << [type |-> "consecutive",
              severity |-> IF consecutive.maxSequence >= 4 THEN "high" ELSE "medium",
              message |-> << "sequence", consecutive.maxSequence >>,
              data |-> consecutive.sequences] >>
     ELSE << >>)
    \o (IF ~parity.isBalanced
        THEN << [type |-> "parity",
                 severity |-> IF parity.ratio < 20 \/ parity.ratio > 80
                              THEN "medium" ELSE "low",
                 message |-> << parity.evenCount, parity.oddCount >>,
                 data |-> parity] >>
        ELSE << >>)
    \o (IF ~distribution.isWellDistributed
        THEN << [type |-> "distribution",
                 severity |-> IF distribution.diversity = 1 THEN "high" ELSE "low",
                 message |-> << distribution.diversity >>,
                 data |-> distribution.ranges] >>
        ELSE << >>)
    \o (IF multiples.hasIssue
        THEN << [type |-> "multiples",
                 severity |-> IF multiples.multiplesOf10 > 2 THEN "medium" ELSE "low",
                 message |-> << multiples.multiplesOf5, multiples.multiplesOf10 >>,
                 data |-> multiples] >>
        ELSE << >>)

\* The earlier scoreSelectionQuality.
scoreSelectionQualityEarlier(numbers) ==
    LET consecutive == hasConsecutiveIssueEarlier(numbers)
        parity == getParityBalance(numbers)
        distribution == getDecadeDistributionEarlier(numbers)
        multiples == getMultiplesAnalysis(numbers)
        runPenalty == IF consecutive.maxSequence >= 5 THEN 40
                      ELSE IF consecutive.maxSequence = 4 THEN 25
                      ELSE IF consecutive.maxSequence = 3 THEN 10
                      ELSE 0
        parityPenalty == IF parity.isBalanced THEN 0
                         ELSE IF parity.ratio < 20 \/ parity.ratio > 80 THEN 20
                         ELSE 10
        decadePenalty == IF distribution.diversity = 1 THEN 30
                         ELSE IF distribution.diversity = 2 THEN 5
                         ELSE 0
        multiplesPenalty == (IF multiples.multiplesOf10 > 2 THEN 15 ELSE 0)
                            + (IF multiples.ratio5 > 50 THEN 10 ELSE 0)
    IN Max2(0, Min2(100, 100 - runPenalty - parityPenalty - decadePenalty
                             - multiplesPenalty))

\* The earlier validateSelection.
validateSelectionEarlier(numbers) ==
    ValidationOf(IssuesOfEarlier(hasConsecutiveIssueEarlier(numbers),
                                 getParityBalance(numbers),
                                 getDecadeDistributionEarlier(numbers),
                                 getMultiplesAnalysis(numbers)),
                 scoreSelectionQualityEarlier(numbers))

RECURSIVE EarlierRunLoop(_, _, _)
\* The loop of the earlier wouldCreateConsecutive over the sorted temp, i 1-based:
\* TRUE as soon as three consecutive numbers are met.
EarlierRunLoop(temp, i, sequence) ==
    IF i > Len(temp) THEN FALSE
    ELSE IF temp[i] = temp[i - 1] + 1
    THEN (IF sequence + 1 >= 3 THEN TRUE ELSE EarlierRunLoop(temp, i + 1, sequence + 1))
    ELSE EarlierRunLoop(temp, i + 1, 1)

\* The earlier wouldCreateConsecutive.
wouldCreateConsecutiveEarlier(selected, candidate) ==
    EarlierRunLoop(SortAsc(Append(selected, candidate)), 2, 1)

(***************************************************************************)
(* Idle values of the variables a specification does not use               *)
(***************************************************************************)
NoSelIn == [candidates |-> << >>, count |-> 0, strictness |-> "low"]

NoGreedy == [selected |-> << >>, skipped |-> << >>]

NoSelOut == [numbers |-> << >>, fallback |-> FALSE]

BetsIdle == totalFunds = 0 /\ betInfo = NoBetInfo

SelIdle == selIn = NoSelIn /\ selPc = "idle" /\ selGreedy = NoGreedy /\ selOut = NoSelOut

NoValIn == [numbers |-> << >>, permuted |-> << >>]

NoValOut ==
    [report |-> << >>, permutedReport |-> << >>, earlierReport |-> << >>,
     rejects |-> FALSE, earlierRejects |-> FALSE]

ValIdle == valIn = NoValIn /\ valPc = "idle" /\ valOut = NoValOut

CloseIdle == db = << >> /\ clock = 0 /\ att = << >> /\ requests = 0

NoApiCall == [sent |-> FALSE, numbers |-> << >>]

DashIdle == selectedNumbers = << >> /\ apiCall = NoApiCall

(***************************************************************************)
(* SpecBets: calculateBetLevel applied to every integer amount of funds    *)
(***************************************************************************)
InitBets ==
    /\ ValIdle
    /\ DashIdle
    /\ totalFunds \in 0..MaxFunds
    /\ betInfo = NoBetInfo
    /\ SelIdle
    /\ CloseIdle

ComputeBetLevel ==
    /\ ~betInfo.computed
    /\ betInfo' = calculateBetLevel(totalFunds)
    /\ UNCHANGED << totalFunds, selVars, closeVars, valVars, dashVars >>

NextBets == ComputeBetLevel

SpecBets == InitBets /\ [][NextBets]_vars

(***************************************************************************)
(* SpecSelect: selectBestNumbers applied to a family of candidate lists    *)
(*   candidates: CandLen numbers start, start + stride, ... (mod 60),      *)
(*   ranked by descending score, handed over in rank order or reversed,    *)
(*   without votes or, as consolidateFinalNumbers calls it, with votes     *)
(***************************************************************************)
CandStarts == { 1, 19, 40, 58 }

CandStrides == { 1, 2, 3, 7, 10, 20 }

Strictnesses == { "low", "medium", "high" }

RandomStreams == [1..RandLen -> 0..(RandDen - 1)]

CandNumber(start, stride, i) == ((start - 1 + i * stride) % 60) + 1

RECURSIVE CandListFrom(_, _, _, _, _, _)
CandListFrom(start, stride, n, reversed, i, acc) ==
    IF i > n THEN acc
    ELSE LET r == IF reversed THEN n - i ELSE i - 1
         IN CandListFrom(start, stride, n, reversed, i + 1,
                Append(acc, [number |-> CandNumber(start, stride, r),
                             score |-> n - r, votes |-> -1]))

\* n candidates; the r-th in rank (r = 0 is the best) is start + r * stride.
CandList(start, stride, n, reversed) ==
    CandListFrom(start, stride, n, reversed, 1, << >>)

\* The candidates with a votes field, as consolidateFinalNumbers hands them over:
\* the votes of a number are its remainder by 3, so that votes tie.
WithVotes(cands) == [i \in 1..Len(cands) |-> [cands[i] EXCEPT !.votes = cands[i].number % 3]]

DistinctNumbers(cands) ==
    Cardinality({ cands[i].number : i \in 1..Len(cands) }) = Len(cands)

InitSelect ==
    /\ ValIdle
    /\ DashIdle
    /\ BetsIdle
    /\ CloseIdle
    /\ \E start \in CandStarts, stride \in CandStrides, count \in 6..9,
          extra \in { 0, CandExtra }, reversed \in BOOLEAN, strictness \in Strictnesses,
          voted \in BOOLEAN :
          LET len == Min2(IF extra = 0 THEN 4 * count ELSE count + extra, 60)
              ranked == CandList(start, stride, len, reversed)
              cands == IF voted THEN WithVotes(ranked) ELSE ranked
          IN /\ voted => (strictness = "high" /\ extra = 0 /\ ~reversed)
             /\ DistinctNumbers(cands)
             /\ selIn = [candidates |-> cands, count |-> count,
                         strictness |-> strictness]
    /\ selPc = "start"
    /\ selGreedy = NoGreedy
    /\ selOut = NoSelOut

\* selectBestNumbers up to the end of the greedy loop.
SelectGreedy ==
    /\ selPc = "start"
    /\ selGreedy' = GreedyPass(selIn.candidates, selIn.count, selIn.strictness)
    /\ selPc' = "greedy"
    /\ UNCHANGED << selIn, selOut, betVars, closeVars, valVars, dashVars >>

\* The rest of selectBestNumbers; the random draws matter only in the fallback.
SelectFinish ==
    /\ selPc = "greedy"
    /\ \E rnd \in RandomStreams :
          /\ (Len(selGreedy.selected) = selIn.count => \A i \in 1..RandLen : rnd[i] = 0)
          /\ selOut' = FinishSelection(selGreedy, selIn.count, rnd)
    /\ selPc' = "done"
    /\ UNCHANGED << selIn, selGreedy, betVars, closeVars, valVars, dashVars >>

NextSelect == SelectGreedy \/ SelectFinish

SpecSelect == InitSelect /\ [][NextSelect]_vars

(***************************************************************************)
(* SpecValidate: validateSelection applied to a list of distinct numbers   *)
(* and to a permutation of it.  The lists are the subsets of ProbeNumbers  *)
(* of up to MaxProbeLen numbers (runs of 2 to 5, all three ranges, evens,  *)
(* odds, multiples of 5 and of 10), and, for every number e of evens and o *)
(* of odds that 1..60 allows, the first e evens with the first o odds.     *)
(***************************************************************************)
ProbeNumbers == { 1, 2, 3, 4, 5, 10, 11, 12, 30, 31, 45, 50, 60 }

PermutationKinds == { "reverse", "rotate", "interleave" }

\* The numbers of S in ascending order.
AscendingList(S) ==
    ArrayOf([k \in 1..Cardinality(S) |->
                CHOOSE x \in S : Cardinality({ y \in S : y < x }) = k - 1],
            Cardinality(S))

\* A permutation of s: backwards; from the second element on, then the first;
\* the elements at odd places, then those at even places.
Permute(s, kind) ==
    LET n == Len(s)
    IN IF kind = "reverse" THEN ArrayOf([i \in 1..n |-> s[n + 1 - i]], n)
       ELSE IF kind = "rotate" THEN ArrayOf([i \in 1..n |-> s[(i % n) + 1]], n)
       ELSE ArrayOf([i \in 1..n |-> IF 2 * i - 1 <= n THEN s[2 * i - 1]
                                    ELSE s[2 * (i - (n + 1) \div 2)]], n)

\* The first evens even numbers and the first odds odd numbers.
ParitySample(evens, odds) ==
    { n \in 1..60 : \/ n % 2 = 0 /\ n <= 2 * evens
                    \/ n % 2 = 1 /\ n <= 2 * odds - 1 }

InitValidate ==
    /\ DashIdle
    /\ BetsIdle
    /\ SelIdle
    /\ CloseIdle
    /\ \/ \E S \in SUBSET ProbeNumbers, kind \in PermutationKinds :
             /\ Cardinality(S) \in 1..MaxProbeLen
             /\ valIn = [numbers |-> AscendingList(S),
                         permuted |-> Permute(AscendingList(S), kind)]
       \/ \E evens \in 0..30, odds \in 0..30 :
             /\ evens + odds >= 1
             /\ valIn = [numbers |-> AscendingList(ParitySample(evens, odds)),
                         permuted |-> Permute(AscendingList(ParitySample(evens, odds)),
                                              "reverse")]
    /\ valPc = "start"
    /\ valOut = NoValOut

\* validateSelection(numbers), for the list and for its permutation, in the later
\* version and (earlierReport) in the earlier one; and wouldCreateConsecutive of
\* both versions for the last number of the permuted list as the candidate and
\* the numbers before it as the selection.
Validate ==
    /\ valPc = "start"
    /\ valOut' = [report |-> validateSelection(valIn.numbers),
                  permutedReport |-> validateSelection(valIn.permuted),
                  earlierReport |-> validateSelectionEarlier(valIn.numbers),
                  rejects |->
                      wouldCreateConsecutive(
                          SubSeq(valIn.permuted, 1, Len(valIn.permuted) - 1),
                          valIn.permuted[Len(valIn.permuted)]),
                  earlierRejects |->
                      wouldCreateConsecutiveEarlier(
                          SubSeq(valIn.permuted, 1, Len(valIn.permuted) - 1),
                          valIn.permuted[Len(valIn.permuted)])]
    /\ valPc' = "done"
    /\ UNCHANGED << valIn, betVars, selVars, closeVars, dashVars >>

NextValidate == Validate

SpecValidate == InitValidate /\ [][NextValidate]_vars

(***************************************************************************)
(* Spec: closeBolao run by two attempts on one pool, and the requests of   *)
(* participants and admins served meanwhile                                *)
(* The pool: ana (confirmed, 1 or 2 quotas, six picks), bia (confirmed,    *)
(* 1 quota, six picks or none), caio (payment pending, six picks).         *)
(***************************************************************************)
Attempts == { "a1", "a2" }

PoolId == "b1"

\* The pools tried: the quota value, ana's quotas, whether bia picked her numbers,
\* and the scores.  Total funds are 4, 14, 21, 168 and 504.
Scenarios ==
    { [quota |-> 2, anaQuotas |-> 1, biaPicked |-> TRUE, profile |-> "spread"],
      [quota |-> 7, anaQuotas |-> 1, biaPicked |-> TRUE, profile |-> "few"],
      [quota |-> 7, anaQuotas |-> 2, biaPicked |-> TRUE, profile |-> "sparse"],
      [quota |-> 84, anaQuotas |-> 1, biaPicked |-> TRUE, profile |-> "spread"],
      [quota |-> 252, anaQuotas |-> 1, biaPicked |-> FALSE, profile |-> "spread"] }

\* The pool of SpecDescending: funds 90, bia without numbers, and scores that
\* descend with the number.
DescendingScenarios ==
    { [quota |-> 45, anaQuotas |-> 1, biaPicked |-> FALSE, profile |-> "descending"] }

AnaPicks == << 5, 12, 23, 34, 45, 56 >>

BiaPicks == << 5, 17, 23, 38, 41, 60 >>

CaioPicks == << 1, 2, 3, 4, 5, 6 >>

\* The numbers that have a score row in the sparse profile.
SparseNumbers == { 3, 8, 14, 19, 25, 30, 36, 41, 47, 52, 58, 60 }

\* The numbers that have a score row in the profile "few": fewer than a wager has.
FewNumbers == { 7, 21, 35, 49, 56 }

\* The final_score of number n: all different within a profile.
ProfileScore(profile, n) ==
    IF profile = "descending" THEN 61 - n ELSE (n * 7) % 61

\* The number_scores rows of the pool, by number.
ScoreTable(profile) ==
    SelectSeq([n \in 1..60 |-> [bolao_id |-> PoolId, number |-> n,
                                final_score |-> ProfileScore(profile, n)]],
              LAMBDA r : /\ profile = "sparse" => r.number \in SparseNumbers
                         /\ profile = "few" => r.number \in FewNumbers)

RECURSIVE SelectionRows(_, _, _, _)
\* generated.map(num => ({ participation_id: participant.id, number: num }))
SelectionRows(participationId, numbers, i, acc) ==
    IF i > Len(numbers) THEN acc
    ELSE SelectionRows(participationId, numbers, i + 1,
             Append(acc, [participation_id |-> participationId, number |-> numbers[i]]))

Participation(id, userId, name, quotas, status) ==
    [id |-> id, bolao_id |-> PoolId, users |-> [id |-> userId, name |-> name],
     quota_quantity |-> quotas, payment_status |-> status]

InitialBase(sc) ==
    [bolao |-> [id |-> PoolId, name |-> "mega", status |-> OPEN,
                quota_value |-> sc.quota, closure_hash |-> << >>,
                closure_data |-> << >>, closed_at |-> 0],
     participations |-> << Participation(1, "u1", "ana", sc.anaQuotas, CONFIRMED),
                           Participation(2, "u2", "bia", 1, CONFIRMED),
                           Participation(3, "u3", "caio", 1, "pending") >>,
     number_selections |-> SelectionRows(1, AnaPicks, 1, << >>)
                           \o (IF sc.biaPicked THEN SelectionRows(2, BiaPicks, 1, << >>)
                               ELSE << >>)
                           \o SelectionRows(3, CaioPicks, 1, << >>),
     number_scores |-> ScoreTable(sc.profile),
     final_bets |-> << >>]

\* The draws attempt a gets from Math.random().
StreamOf(a) ==
    IF a = "a1" THEN [i \in 1..RandLen |-> 0] ELSE [i \in 1..RandLen |-> i % RandDen]

\* The local variables of closeBolao before its first step; wrote and usedRandom
\* record what the attempt has done, paths the branch that produced each bet and
\* usedBefore the used numbers each bet was generated with (after the reset).
\* finBolao is the answer of the first query of getBolaoFinancials, scores the
\* rows of line 148 and first the answer of the first query of a bet, each
\* kept over the next await; refused is the number of queries of the attempt
\* that were answered with an error.
NewAttempt(world, adminUserId, rnd) ==
    [world |-> world, adminUserId |-> adminUserId, rnd |-> rnd, pc |-> "start",
     refused |-> 0,
     error |-> "", bolao |-> << >>, finBolao |-> << >>, financials |-> << >>,
     participants |-> << >>, scores |-> << >>, first |-> << >>,
     nextParticipant |-> 1, participantsData |-> << >>, numberToUsers |-> << >>,
     finalBetsArray |-> << >>, paths |-> << >>, usedBefore |-> << >>,
     usedNumbers |-> {},
     isFirstLargeBet |-> TRUE, group |-> 1, made |-> 0,
     closureData |-> << >>, hash |-> << >>, usedRandom |-> FALSE, wrote |-> {}]

\* Both attempts close the same pool, the only one of database 1.
InitOn(scenarios) ==
    /\ ValIdle
    /\ DashIdle
    /\ BetsIdle
    /\ SelIdle
    /\ \E sc \in scenarios : db = [w \in { 1 } |-> InitialBase(sc)]
    /\ clock = 1
    /\ requests = 0
    /\ att = [a \in Attempts |->
                 NewAttempt(1, IF a = "a1" THEN "adm1" ELSE "adm2", StreamOf(a))]

Init == InitOn(Scenarios)

InitDescending == InitOn(DescendingScenarios)

\* throw: the attempt ends with the error.
Throw(a, message) == att' = [att EXCEPT ![a].pc = "failed", ![a].error = message]

\* The queries refused and the requests served so far.
Disturbances == att["a1"].refused + att["a2"].refused + requests

\* Whether the next query of the attempt is answered with an error: any query
\* of either call may be, until MaxDisturbances is reached.
Outcomes(a) ==
    IF Disturbances < MaxDisturbances THEN { FALSE, TRUE } ELSE { FALSE }

\* The attempt after a query of it was answered, with an error if fails.
Asked(attempt, fails) ==
    IF fails THEN [attempt EXCEPT !.refused = @ + 1] ELSE attempt

\* throw, after a query answered with an error if fails.
ThrowAfter(a, fails, message) ==
    att' = [att EXCEPT ![a] = [Asked(@, fails) EXCEPT !.pc = "failed",
                                                      !.error = message]]

\* A bolao query that does not filter on the status.
FindBolaoAnyStatus(base, bolaoId) ==
    IF base.bolao.id = bolaoId THEN << base.bolao >> ELSE << >>

\* .from('bolao').select('*').eq('id', bolaoId).eq('status', OPEN).single()
FindOpenBolao(base, bolaoId) ==
    IF base.bolao.id = bolaoId /\ base.bolao.status = OPEN THEN << base.bolao >>
    ELSE << >>

\* Step 1: verify the bolao is open; if (bolaoError || !bolao) throws the same
\* error for a query that fails and for one that finds no open row.
CheckOpen(a) ==
    /\ att[a].pc = "start"
    /\ \E fails \in Outcomes(a) :
          LET found == IF fails THEN << >>
                       ELSE FindOpenBolao(db[att[a].world], PoolId)
          IN IF Len(found) = 0
             THEN ThrowAfter(a, fails, "Bolao not found or already closed")
             ELSE att' = [att EXCEPT ![a].pc = "financials", ![a].bolao = found[1]]
    /\ UNCHANGED << db, clock, requests, betVars, selVars, valVars, dashVars >>

\* A funds check that never fires.
BelowMinimumNegative(financials) == financials.betLevel < 0

\* if (financials.betLevel === 0)
BelowMinimum(financials) == financials.betLevel = 0

\* The local variables after step 2.
WithFinancials(attempt, financials) ==
    IF BelowMinimum(financials)
    THEN [attempt EXCEPT !.pc = "failed",
                         !.error = IF financials.error # "" THEN financials.error
                                   ELSE "Insufficient funds"]
    ELSE [attempt EXCEPT !.pc = "participants", !.financials = financials]

\* Step 2, getBolaoFinancials up to its first await: the bolao row is read, or
\* the query fails and the error is thrown.
GetFinancials(a) ==
    /\ att[a].pc = "financials"
    /\ \E fails \in Outcomes(a) :
          LET answer == IF fails THEN Refused("bolaoError")
                        ELSE BolaoById(db[att[a].world], PoolId)
          IN IF answer.error # ""
             THEN ThrowAfter(a, fails,
                             getBolaoFinancials(answer, Refused("")).thrown)
             ELSE att' = [att EXCEPT ![a].pc = "quotas", ![a].finBolao = answer]
    /\ UNCHANGED << db, clock, requests, betVars, selVars, valVars, dashVars >>

\* Step 2, the rest of getBolaoFinancials and the test of the bet level: the
\* confirmed participations are read, or the query fails and the error is thrown.
GetQuotas(a) ==
    /\ att[a].pc = "quotas"
    /\ \E fails \in Outcomes(a) :
          LET answer == IF fails THEN Refused("partError")
                        ELSE Answered(ConfirmedParticipations(db[att[a].world],
                                                              PoolId))
              r == getBolaoFinancials(att[a].finBolao, answer)
          IN IF r.thrown # ""
             THEN ThrowAfter(a, fails, r.thrown)
             ELSE att' = [att EXCEPT ![a] = WithFinancials(@, r.value)]
    /\ UNCHANGED << db, clock, requests, betVars, selVars, valVars, dashVars >>

\* Step 3: the confirmed participants with their selections; the query may fail.
ReadParticipants(a) ==
    /\ att[a].pc = "participants"
    /\ \E fails \in Outcomes(a) :
          IF fails
          THEN ThrowAfter(a, fails, "partError")
          ELSE att' = [att EXCEPT ![a].pc = "scores",
                                  ![a].participants =
                                      ReadParticipantRows(db[att[a].world], PoolId),
                                  ![a].nextParticipant = 1]
    /\ UNCHANGED << db, clock, requests, betVars, selVars, valVars, dashVars >>

\* Line 148: const scores = await getScores(bolaoId, false).
ReadScores(a) ==
    /\ att[a].pc = "scores"
    /\ att' = [att EXCEPT ![a].pc = "autogen",
                          ![a].scores = getScores(db[att[a].world], PoolId)]
    /\ UNCHANGED << db, clock, requests, betVars, selVars, valVars, dashVars >>

\* The first participant from index i on without selections, or 0.
NextLacking(participants, i) ==
    LET lacking == { j \in i..Len(participants) :
                       Len(participants[j].number_selections) = 0 }
    IN IF lacking = {} THEN 0 ELSE CHOOSE j \in lacking : \A k \in lacking : j <= k

\* The six numbers generated for a participant, as selection rows.
GeneratedSelections(scores, participationId, rnd) ==
    SelectionRows(participationId,
                  generateWeightedRandomNumbers(ScoreItems(scores), 6, rnd),
                  1, << >>)

\* The loop of lines 149-176, up to and including the next participant without
\* selections: six numbers are generated and inserted; a failed insert is only
\* logged.
AutoGenerate(a) ==
    /\ att[a].pc = "autogen"
    /\ NextLacking(att[a].participants, att[a].nextParticipant) # 0
    /\ LET w == att[a].world
           i == NextLacking(att[a].participants, att[a].nextParticipant)
       IN \E selections \in { GeneratedSelections(att[a].scores,
                                  att[a].participants[i].id, att[a].rnd) } :
             \/ /\ db' = [db EXCEPT ![w].number_selections = @ \o selections]
                /\ att' = [att EXCEPT
                             ![a].participants[i].number_selections =
                                 RowNumbers(selections, 1, << >>),
                             ![a].nextParticipant = i + 1,
                             ![a].usedRandom = TRUE,
                             ![a].wrote = @ \cup { "selections" }]
             \/ /\ TRUE \in Outcomes(a)
                /\ att' = [att EXCEPT ![a] = [Asked(@, TRUE) EXCEPT
                                                !.nextParticipant = i + 1,
                                                !.usedRandom = TRUE]]
                /\ UNCHANGED db
    /\ UNCHANGED << clock, requests, betVars, selVars, valVars, dashVars >>

\* Lines 178-213: participantsData, step 4 (numberToUsers) and the start of step 5.
\* Only the data of the step-4 answer is read: when the query fails the map
\* stays empty and the closure goes on.
ReadAllSelections(a) ==
    /\ att[a].pc = "autogen"
    /\ NextLacking(att[a].participants, att[a].nextParticipant) = 0
    /\ \E fails \in Outcomes(a) :
          LET answer == IF fails THEN Refused("error")
                        ELSE Answered(ConfirmedSelections(db[att[a].world], PoolId))
          IN att' = [att EXCEPT ![a] =
                        [Asked(@, fails) EXCEPT
                           !.pc = "bets",
                           !.participantsData =
                               TransformParticipants(att[a].participants, 1, << >>),
                           !.numberToUsers =
                               BuildNumberToUsers(db[att[a].world], answer.data),
                           !.finalBetsArray = << >>,
                           !.usedNumbers = {},
                           !.isFirstLargeBet = TRUE,
                           !.group = 1,
                           !.made = 0]]
    /\ UNCHANGED << db, clock, requests, betVars, selVars, valVars, dashVars >>

\* The answer of the first query of a bet: the selections of confirmed
\* participants (consolidateFinalNumbers, lines 18-25) or the score rows of the
\* unused numbers (lines 247-253, 295-301), or an error.
FirstAnswer(base, attempt, bet, fails) ==
    IF IsDemocratic(attempt.financials, bet, attempt.isFirstLargeBet)
    THEN IF fails THEN Refused("selError")
         ELSE Answered(ConfirmedSelections(base, PoolId))
    ELSE IF fails THEN Refused("error")
         ELSE Answered(PoolQuery(base, PoolId, SizeOf(bet), PoolMaxOf(bet),
                                 attempt.usedNumbers))

\* The answer of the second query of a bet: the score rows of the pool
\* (consolidateFinalNumbers, lines 38-41) or an error, or the rows of getScores
\* (lines 270 and 318).
SecondAnswer(base, attempt, bet, fails) ==
    IF fails THEN Refused("scoreError") ELSE Answered(getScores(base, PoolId))

\* Step 5, one iteration of the inner loop (lines 218-346) up to its first await
\* and, in the score-based branches with rows enough, to its end.  Otherwise
\* the answer is kept for the second await; consolidateFinalNumbers throws the
\* error of its first query.
GenerateBet(a) ==
    /\ att[a].pc = "bets"
    /\ att[a].group <= Len(att[a].financials.betDistribution)
    /\ LET bet == att[a].financials.betDistribution[att[a].group]
           democratic == IsDemocratic(att[a].financials, bet, att[a].isFirstLargeBet)
       IN \E fails \in Outcomes(a) :
          \E first \in { FirstAnswer(db[att[a].world], att[a], bet, fails) } :
             IF democratic /\ first.error # ""
             THEN ThrowAfter(a, fails,
                             consolidateFinalNumbers(first, Refused(""), bet.numbers,
                                                     att[a].rnd).thrown)
             ELSE IF ~democratic /\ EnoughScores(first, SizeOf(bet))
             THEN att' = [att EXCEPT ![a] =
                             PushBet(@, bet,
                                     NextBet(@.financials, bet, @.isFirstLargeBet,
                                             @.usedNumbers, first, Refused(""),
                                             @.rnd))]
             ELSE att' = [att EXCEPT ![a] =
                             [Asked(@, fails) EXCEPT
                                !.pc = "bets2",
                                !.first = first,
                                !.usedNumbers =
                                    IF democratic THEN @
                                    ELSE AfterReset(SizeOf(bet), @)]]
    /\ UNCHANGED << db, clock, requests, betVars, selVars, valVars, dashVars >>

\* Step 5, the rest of the iteration after its second await: the scores query
\* of consolidateFinalNumbers, which may fail, or getScores for the weighted
\* random draw.
FinishBet(a) ==
    /\ att[a].pc = "bets2"
    /\ LET bet == att[a].financials.betDistribution[att[a].group]
           democratic == IsDemocratic(att[a].financials, bet, att[a].isFirstLargeBet)
       IN \E fails \in (IF democratic THEN Outcomes(a) ELSE { FALSE }) :
          \E r \in { NextBet(att[a].financials, bet, att[a].isFirstLargeBet,
                             att[a].usedNumbers, att[a].first,
                             SecondAnswer(db[att[a].world], att[a], bet, fails),
                             att[a].rnd) } :
             IF r.thrown # ""
             THEN ThrowAfter(a, fails, r.thrown)
             ELSE att' = [att EXCEPT ![a] = PushBet([@ EXCEPT !.pc = "bets"],
                                                    bet, r)]
    /\ UNCHANGED << db, clock, requests, betVars, selVars, valVars, dashVars >>

\* Steps 6 and 7: the closure record, stamped with the time, and its hash.
CreateClosureData(a) ==
    /\ att[a].pc = "bets"
    /\ att[a].group > Len(att[a].financials.betDistribution)
    /\ \E now \in clock..MaxClock :
          LET closureData == BuildClosureData(PoolId, att[a].bolao, now,
                                 att[a].adminUserId, att[a].financials,
                                 att[a].participantsData, att[a].numberToUsers,
                                 att[a].finalBetsArray)
          IN /\ att' = [att EXCEPT ![a].pc = "update",
                                   ![a].closureData = closureData,
                                   ![a].hash = generateClosureHash(closureData)]
             /\ clock' = now
    /\ UNCHANGED << db, requests, betVars, selVars, valVars, dashVars >>

\* Step 8: .from('bolao').update({...}).eq('id', bolaoId); the update may fail.
UpdateStatus(a) ==
    /\ att[a].pc = "update"
    /\ \/ TRUE \in Outcomes(a) /\ ThrowAfter(a, TRUE, "updateError") /\ UNCHANGED db
       \/ /\ db' = [db EXCEPT ![att[a].world].bolao =
                        [@ EXCEPT !.status = CLOSED,
                                  !.closure_hash = att[a].hash,
                                  !.closure_data = att[a].closureData,
                                  !.closed_at = att[a].closureData.closedAt]]
          /\ att' = [att EXCEPT ![a].pc = "insert", ![a].wrote = @ \cup { "status" }]
    /\ UNCHANGED << clock, requests, betVars, selVars, valVars, dashVars >>

RECURSIVE BetsToInsert(_, _, _, _)
\* closureData.finalBets.map(bet => ({ bolao_id, bet_type, numbers }))
BetsToInsert(bolaoId, finalBets, i, acc) ==
    IF i > Len(finalBets) THEN acc
    ELSE BetsToInsert(bolaoId, finalBets, i + 1,
             Append(acc, [bolao_id |-> bolaoId, bet_type |-> finalBets[i].type,
                          numbers |-> finalBets[i].numbers]))

\* Step 9: insert the final bets; the insert may fail.
InsertBets(a) ==
    /\ att[a].pc = "insert"
    /\ \/ TRUE \in Outcomes(a) /\ ThrowAfter(a, TRUE, "betsError") /\ UNCHANGED db
       \/ /\ db' = [db EXCEPT ![att[a].world].final_bets =
                        @ \o BetsToInsert(PoolId, att[a].closureData.finalBets, 1, << >>)]
          /\ att' = [att EXCEPT ![a].pc = "done", ![a].wrote = @ \cup { "bets" }]
    /\ UNCHANGED << clock, requests, betVars, selVars, valVars, dashVars >>

Step(a) ==
    \/ CheckOpen(a)
    \/ GetFinancials(a)
    \/ GetQuotas(a)
    \/ ReadParticipants(a)
    \/ ReadScores(a)
    \/ AutoGenerate(a)
    \/ ReadAllSelections(a)
    \/ GenerateBet(a)
    \/ FinishBet(a)
    \/ CreateClosureData(a)
    \/ UpdateStatus(a)
    \/ InsertBets(a)

(***************************************************************************)
(* The requests of the pages (api.js) that write the tables closeBolao     *)
(* reads.  Each is served between two awaited queries of a running         *)
(* closeBolao, or before or after it.  Their handlers are not part of the  *)
(* sources: each is modelled by the rows its route is there to write.      *)
(***************************************************************************)
\* The participation that saves a selection (bia) and the numbers it saves.
Selectors == { 2 }

RequestedNumbers == { << 1, 2, 3, 4, 5, 6 >> }

\* The score table a recalculation may leave: rows for a few numbers only.
RecalculatedProfiles == { "sparse" }

\* The position of the participation with the id in the table, or 0.
ParticipationIndex(base, participationId) ==
    LET found == { i \in 1..Len(base.participations) :
                     base.participations[i].id = participationId }
    IN IF found = {} THEN 0 ELSE CHOOSE i \in found : TRUE

\* api.selectNumbers(numbers), POST /api/numbers/select: the numbers become the
\* selection of the participation, in place of the rows it had.
selectNumbers(base, participationId, numbers) ==
    [base EXCEPT !.number_selections =
        SelectSeq(@, LAMBDA r : r.participation_id # participationId)
            \o SelectionRows(participationId, numbers, 1, << >>)]

\* api.joinBolao(quotaQuantity), POST /api/payments/join: a participation of
\* the user, its payment pending.
joinBolao(base, userId, name, quotaQuantity) ==
    [base EXCEPT !.participations =
        Append(@, Participation(Len(@) + 1, userId, name, quotaQuantity, "pending"))]

\* api.claimPaid(): the pending participation says it has paid.
claimPaid(base, participationId) ==
    LET i == ParticipationIndex(base, participationId)
    IN IF i # 0 /\ base.participations[i].payment_status = "pending"
       THEN [base EXCEPT !.participations[i].payment_status = "claimed"]
       ELSE base

\* api.confirmPayment(participationId), by an admin: the payment is confirmed.
confirmPayment(base, participationId) ==
    LET i == ParticipationIndex(base, participationId)
    IN IF i # 0 /\ base.participations[i].payment_status \in { "pending", "claimed" }
       THEN [base EXCEPT !.participations[i].payment_status = CONFIRMED]
       ELSE base

\* api.getScores(true): the score rows of the pool are calculated again.
recalculateScores(base, profile) ==
    [base EXCEPT !.number_scores = ScoreTable(profile)]

\* The request is served and the database it leaves is stored: at any moment,
\* whatever the calls of closeBolao are doing and whatever the status of the
\* pool, until MaxDisturbances is reached.  A request that would change no row
\* is left out.
Served(base) ==
    /\ Disturbances < MaxDisturbances
    /\ base # db[1]
    /\ db' = [db EXCEPT ![1] = base]
    /\ requests' = requests + 1
    /\ UNCHANGED << clock, att, betVars, selVars, valVars, dashVars >>

SelectNumbers ==
    \E participationId \in Selectors, numbers \in RequestedNumbers :
       Served(selectNumbers(db[1], participationId, numbers))

JoinBolao ==
    /\ Len(db[1].participations) = 3
    /\ Served(joinBolao(db[1], "u4", "dani", 1))

ClaimPaid == Served(claimPaid(db[1], 3))

ConfirmPayment == Served(confirmPayment(db[1], 3))

RecalculateScores ==
    \E profile \in RecalculatedProfiles : Served(recalculateScores(db[1], profile))

Request ==
    \/ SelectNumbers
    \/ JoinBolao
    \/ ClaimPaid
    \/ ConfirmPayment
    \/ RecalculateScores

Next == (\E a \in Attempts : Step(a)) \/ Request

Spec == Init /\ [][Next]_vars

\* The same calls and requests on the pool of DescendingScenarios.
SpecDescending == InitDescending /\ [][Next]_vars

(***************************************************************************)
(* SpecPair: two runs of closeBolao, one after the other, each on a        *)
(* database of its own; the second database is the first one, or the first *)
(* one with a single score or a single vote changed.                       *)
(***************************************************************************)
PairScenarios ==
    { [quota |-> 7, anaQuotas |-> 1, biaPicked |-> TRUE, profile |-> "spread"],
      [quota |-> 45, anaQuotas |-> 1, biaPicked |-> TRUE, profile |-> "spread"],
      [quota |-> 45, anaQuotas |-> 1, biaPicked |-> FALSE, profile |-> "descending"] }

\* "score-low" and "score-top": the score of number 35 or of number 26 (the lowest
\* and the highest of the spread profile) becomes 0; "vote": ana's pick 56
\* becomes 57.
Variants == { "same", "score-low", "score-top", "vote" }

\* rows with the score of number set to score.
WithScore(rows, number, score) ==
    ArrayOf([i \in 1..Len(rows) |->
                IF rows[i].number = number THEN [rows[i] EXCEPT !.final_score = score]
                ELSE rows[i]], Len(rows))

\* rows with the pick from of the participation replaced by the pick to.
WithPick(rows, participationId, from, to) ==
    ArrayOf([i \in 1..Len(rows) |->
                IF rows[i].participation_id = participationId /\ rows[i].number = from
                THEN [rows[i] EXCEPT !.number = to]
                ELSE rows[i]], Len(rows))

Vary(base, variant) ==
    IF variant = "score-low"
    THEN [base EXCEPT !.number_scores = WithScore(@, 35, 0)]
    ELSE IF variant = "score-top"
    THEN [base EXCEPT !.number_scores = WithScore(@, 26, 0)]
    ELSE IF variant = "vote"
    THEN [base EXCEPT !.number_selections = WithPick(@, 1, 56, 57)]
    ELSE base

InitPair ==
    /\ ValIdle
    /\ DashIdle
    /\ BetsIdle
    /\ SelIdle
    /\ \E sc \in PairScenarios, variant \in Variants :
          db = [w \in { 1, 2 } |-> IF w = 1 THEN InitialBase(sc)
                                   ELSE Vary(InitialBase(sc), variant)]
    /\ clock = 1
    /\ requests = 0
    /\ \E admin \in { "adm1", "adm2" } :
          att = [a \in Attempts |->
                    IF a = "a1" THEN NewAttempt(1, "adm1", StreamOf(a))
                    ELSE NewAttempt(2, admin, StreamOf(a))]

\* The second run starts when the first one is over.
NextPair ==
    \E a \in Attempts :
       /\ a = "a2" => att["a1"].pc \in { "done", "failed" }
       /\ Step(a)

SpecPair == InitPair /\ [][NextPair]_vars

(***************************************************************************)
(* Reference for the solver: every multiset of levels, by brute force      *)
(***************************************************************************)
RECURSIVE Decomps(_, _, _)
\* The << cost, count >> of every multiset of levels[i..] costing at most budget.
Decomps(levels, i, budget) ==
    IF i > Len(levels) THEN { << 0, 0 >> }
    ELSE UNION { { << p[1] + n * levels[i].cost, p[2] + n >> :
                     p \in Decomps(levels, i + 1, budget - n * levels[i].cost) } :
                 n \in 0..(budget \div levels[i].cost) }

AllDecomps == Decomps(BET_LEVELS, 1, MaxFunds)

RECURSIVE PlanCost(_, _)
PlanCost(dist, i) ==
    IF i > Len(dist) THEN 0 ELSE dist[i].count * dist[i].cost + PlanCost(dist, i + 1)

\* The cheapest level's cost.
MinLevelCost ==
    (CHOOSE l \in { BET_LEVELS[i] : i \in 1..Len(BET_LEVELS) } :
        \A i \in 1..Len(BET_LEVELS) : l.cost <= BET_LEVELS[i].cost).cost

\* C1: for every integer totalFunds >= the cheapest level cost the returned plan
\* is a multiset of levels with totalCost <= totalFunds; no multiset of levels
\* costing at most totalFunds costs more; and no multiset of the same cost has
\* fewer bets than totalBets.
C1_OptimalPlan ==
    (betInfo.computed /\ totalFunds >= MinLevelCost) =>
        LET totalCost == totalFunds - betInfo.remainingFunds
        IN /\ betInfo.error = ""
           /\ totalCost <= totalFunds
           /\ PlanCost(betInfo.betDistribution, 1) = totalCost
           /\ SumCounts(betInfo.betDistribution, 1) = betInfo.totalBets
           /\ \A p \in AllDecomps :
                 p[1] <= totalFunds =>
                    /\ p[1] <= totalCost
                    /\ (p[1] = totalCost => p[2] >= betInfo.totalBets)

\* A plan over all four levels that leaves funds unspent has been computed.
C1_Witness ==
    /\ betInfo.computed
    /\ Len(betInfo.betDistribution) = 4
    /\ betInfo.remainingFunds > 0

Dist1(n1, c1, k1) == << [numbers |-> n1, cost |-> c1, count |-> k1] >>

Stored == db[1].bolao

Writers == { a \in Attempts : att[a].wrote \cap { "status", "bets" } # {} }

\* C2: of two attempts that both start while the status is open, at most one
\* writes the status, fingerprint, snapshot or wager rows; the other one fails
\* and persists nothing.
C2_SingleWriter == Cardinality(Writers) <= 1

\* C3: an attempt that failed has left no status, fingerprint, snapshot,
\* selection or wager row behind.
C3_FailureWritesNothing ==
    \A a \in Attempts : att[a].pc = "failed" => att[a].wrote = {}

\* C4: an attempt that starts on a closed pool fails with the not-open error and
\* changes nothing in the database, a failed attempt takes no further step, and
\* no step takes the status from closed back to open.
C4_ClosedIsTerminal ==
    [][/\ Stored.status = CLOSED => Stored'.status = CLOSED
       /\ \A a \in Attempts :
             /\ (att[a].pc = "start" /\ att'[a] # att[a] /\ Stored.status = CLOSED)
                   => /\ att'[a].pc = "failed"
                      /\ att'[a].error = "Bolao not found or already closed"
                      /\ att'[a].wrote = {}
                      /\ db' = db
             /\ att[a].pc = "failed" => att'[a] = att[a]]_vars

\* An attempt has been refused on a pool that another attempt closed, with the
\* fingerprint, the snapshot and the wager rows of that closure in place.
C4_Witness ==
    \E a, b \in Attempts :
       /\ att[a].pc = "failed"
       /\ att[a].error = "Bolao not found or already closed"
       /\ att[b].pc = "done"
       /\ Stored.status = CLOSED
       /\ Stored.closure_hash = att[b].hash
       /\ Len(db[1].final_bets) > 0

\* The funds of the pool: confirmed quotas times the quota value.
FundsOf(base) ==
    SumQuotas(ConfirmedParticipations(base, PoolId), 1) * base.bolao.quota_value

\* C7: when the funds are below the cheapest level's cost, every attempt that
\* gets past its funds check has failed and has written nothing: the pool
\* stays open, with no fingerprint, no snapshot, no wager row and no generated
\* selection.  The error is the insufficient-funds error, unless a query of the
\* attempt was answered with an error before the funds were known.
C7_InsufficientFundsWritesNothing ==
    FundsOf(db[1]) < MinLevelCost =>
        /\ \A a \in Attempts :
              \/ att[a].pc \in { "start", "financials", "quotas" }
              \/ /\ att[a].pc = "failed"
                 /\ att[a].refused = 0 => att[a].error = "Fundos insuficientes"
                 /\ att[a].wrote = {}
                 /\ att[a].finalBetsArray = << >>
        /\ Stored.status = OPEN
        /\ Stored.closure_hash = << >>
        /\ Stored.closure_data = << >>
        /\ db[1].final_bets = << >>

\* Both attempts on a pool with funds 4 have failed at the funds check.
C7_Witness ==
    /\ FundsOf(db[1]) = 4
    /\ \A a \in Attempts : att[a].pc = "failed" /\ att[a].error = "Fundos insuficientes"

\* The wagers of attempt a that came from the democratic (flagship) path.
Flagships(a) == { i \in 1..Len(att[a].paths) : att[a].paths[i] = "democratic" }

\* C8 as stated: in a completed closure the first wager of the largest group is
\* the flagship whatever the largest size is, and it is the only flagship.
C8_FlagshipWhateverTheSize ==
    \A a \in Attempts : att[a].pc = "done" => Flagships(a) = { 1 }


(***************************************************************************)
(* Claims about two runs of closeBolao, over SpecPair: attempt a1 closes   *)
(* the pool of database 1, then attempt a2 the pool of database 2          *)
(***************************************************************************)
\* What a run takes from its database.
FundsInput(w) == << db[w].participations, db[w].bolao.quota_value >>

Votes(w) == ConfirmedSelections(db[w], PoolId)

Scores(w) == getScores(db[w], PoolId)

\* The number of positions at which two rows lists of one length differ.
DiffCount(s, t) == Cardinality({ i \in 1..Len(s) : s[i] # t[i] })

SameInputs ==
    /\ FundsInput(1) = FundsInput(2)
    /\ Votes(1) = Votes(2)
    /\ Scores(1) = Scores(2)

OneScoreDiffers ==
    /\ FundsInput(1) = FundsInput(2)
    /\ Votes(1) = Votes(2)
    /\ Len(Scores(1)) = Len(Scores(2))
    /\ DiffCount(Scores(1), Scores(2)) = 1

OneVoteDiffers ==
    /\ FundsInput(1) = FundsInput(2)
    /\ Scores(1) = Scores(2)
    /\ Len(Votes(1)) = Len(Votes(2))
    /\ DiffCount(Votes(1), Votes(2)) = 1

\* Both runs have computed their fingerprint, neither has drawn a random number
\* (no generated selections, no fallback) and every query of both was answered:
\* each run has read the votes and the scores its database holds.
BothFingerprinted ==
    \A a \in Attempts :
       att[a].hash # << >> /\ ~att[a].usedRandom /\ att[a].refused = 0

SamePlan == att["a1"].financials.betDistribution = att["a2"].financials.betDistribution

SameWagers == att["a1"].finalBetsArray = att["a2"].finalBetsArray

SameFingerprint == att["a1"].hash = att["a2"].hash

\* The rest of what the closure record holds: the closing time and the admin.
SameStamp ==
    /\ att["a1"].closureData.closedAt = att["a2"].closureData.closedAt
    /\ att["a1"].adminUserId = att["a2"].adminUserId

\* C9 as stated: two runs on the same funds, levels, votes and scores, without
\* randomized fallback, produce the same plan, the same wagers and the same
\* fingerprint.
C9_SameInputsSameFingerprint ==
    (BothFingerprinted /\ SameInputs) => SamePlan /\ SameWagers /\ SameFingerprint

\* C9, amended: two such runs produce the same plan and the same wagers, and
\* their fingerprints are equal exactly when the closing time and the closing
\* admin of the two records are equal too.
C9_SameInputsSameWagers ==
    (BothFingerprinted /\ SameInputs) =>
        /\ SamePlan
        /\ SameWagers
        /\ SameFingerprint <=> SameStamp

\* Two completed runs on the same inputs, with three wagers each, one of them the
\* flagship, have the same fingerprint.
C9_Witness ==
    /\ BothFingerprinted
    /\ SameInputs
    /\ \A a \in Attempts : att[a].pc = "done" /\ Len(att[a].finalBetsArray) = 3
    /\ att["a1"].paths[1] = "democratic"
    /\ SameFingerprint

\* C10 as stated: two runs whose inputs differ in exactly one score or in exactly
\* one vote, everything else equal, have different fingerprints.
C10_AnyChangeChangesFingerprint ==
    (BothFingerprinted /\ SameStamp /\ (OneScoreDiffers \/ OneVoteDiffers))
        => ~SameFingerprint

\* C10, amended: a change of one vote changes the fingerprint; a change of one
\* score, everything else equal, changes the fingerprint exactly when it changes
\* a generated wager.
C10_VoteChangesFingerprint ==
    BothFingerprinted =>
        /\ OneVoteDiffers => ~SameFingerprint
        /\ (OneScoreDiffers /\ SameStamp) => (SameFingerprint <=> SameWagers)

\* Two completed runs that differ in one vote and in nothing else have generated
\* the same wagers, and their fingerprints differ.
C10_Witness ==
    /\ BothFingerprinted
    /\ OneVoteDiffers
    /\ SameStamp
    /\ SameWagers
    /\ \A a \in Attempts : att[a].pc = "done"
    /\ ~SameFingerprint


(***************************************************************************)
(* Claims about validateSelection, over SpecValidate.  The properties are  *)
(* stated on the set of numbers, with exact ratios.                        *)
(***************************************************************************)
\* The set of numbers validateSelection was given.
Given == SeqToSet(valIn.numbers)

\* The maximal runs of consecutive numbers of S, as << first, last >>.
MaximalRuns(S) ==
    { r \in S \X S : /\ r[1] <= r[2]
                     /\ \A n \in r[1]..r[2] : n \in S
                     /\ r[1] - 1 \notin S
                     /\ r[2] + 1 \notin S }

LongestRun(S) ==
    IF S = {} THEN 0
    ELSE LET lengths == { r[2] - r[1] + 1 : r \in MaximalRuns(S) }
         IN CHOOSE l \in lengths : \A m \in lengths : m <= l

\* The number of maximal runs of exactly two numbers.
TwoRuns(S) == Cardinality({ r \in MaximalRuns(S) : r[2] = r[1] + 1 })

EvenCount(S) == Cardinality({ n \in S : n % 2 = 0 })

\* How many numbers of S each of the ranges 1-20, 21-40, 41-60 holds.
RangeCounts(S) ==
    << Cardinality(S \cap (1..20)), Cardinality(S \cap (21..40)),
       Cardinality(S \cap (41..60)) >>

UsedRanges(S) == Cardinality({ r \in 1..3 : RangeCounts(S)[r] > 0 })

LargestRange(S) ==
    CHOOSE c \in { RangeCounts(S)[r] : r \in 1..3 } :
        \A r \in 1..3 : RangeCounts(S)[r] <= c

\* The issues of the report of the given type.
IssuesOfType(type) ==
    { i \in 1..Len(valOut.report.issues) : valOut.report.issues[i].type = type }

\* C11: validateSelection returns the same quality, isValid and issues for a
\* list of numbers and for a permutation of it.
C11_PermutationInvariant ==
    valPc = "done" => valOut.permutedReport = valOut.report

\* A list with two runs and a permutation that separates their numbers have been
\* validated.
C11_Witness ==
    /\ valPc = "done"
    /\ valIn.permuted # valIn.numbers
    /\ LongestRun(Given) >= 3
    /\ TwoRuns(Given) >= 1
    /\ Len(valOut.report.issues) >= 2

\* The documented penalties of a set S of k numbers.
RunPenalty(S) ==
    (IF LongestRun(S) >= 5 THEN 40
     ELSE IF LongestRun(S) = 4 THEN 25
     ELSE IF LongestRun(S) = 3 THEN 15 ELSE 0)
    + (IF TwoRuns(S) > 1 THEN 15 * (TwoRuns(S) - 1) ELSE 0)

ParityPenalty(S) ==
    IF 10 * EvenCount(S) < 2 * Cardinality(S) \/ 10 * EvenCount(S) > 8 * Cardinality(S)
    THEN 20
    ELSE IF 10 * EvenCount(S) < 3 * Cardinality(S)
            \/ 10 * EvenCount(S) > 7 * Cardinality(S)
    THEN 10
    ELSE 0

DecadePenalty(S) ==
    IF UsedRanges(S) = 1 THEN 40
    ELSE IF UsedRanges(S) = 2
    THEN (IF 10 * LargestRange(S) > 7 * Cardinality(S) THEN 20
          ELSE IF 10 * LargestRange(S) > 6 * Cardinality(S) THEN 10
          ELSE 5)
    ELSE 0

MultiplesPenalty(S) ==
    (IF Cardinality({ n \in S : n % 10 = 0 }) > 2 THEN 15 ELSE 0)
    + (IF 2 * Cardinality({ n \in S : n % 5 = 0 }) > Cardinality(S) THEN 10 ELSE 0)

DocumentedScore(S) ==
    LET raw == 100 - RunPenalty(S) - ParityPenalty(S) - DecadePenalty(S)
                   - MultiplesPenalty(S)
    IN IF raw < 0 THEN 0 ELSE IF raw > 100 THEN 100 ELSE raw

\* C12: for every set of 6 to 9 distinct numbers the quality is 100 minus the
\* documented penalties, clamped to 0..100, and isValid holds exactly when the
\* quality is at least 60.
C12_DocumentedScore ==
    (valPc = "done" /\ Len(valIn.numbers) \in 6..9) =>
        /\ valOut.report.quality = DocumentedScore(Given)
        /\ valOut.report.isValid <=> DocumentedScore(Given) >= 60

\* A set of nine numbers with a run penalty, a repeated-pairs penalty and a
\* multiples penalty has been scored below 60.
C12_Witness ==
    /\ valPc = "done"
    /\ Len(valIn.numbers) = 9
    /\ LongestRun(Given) >= 3
    /\ TwoRuns(Given) > 1
    /\ MultiplesPenalty(Given) > 0
    /\ ~valOut.report.isValid

\* C13: for [10,11,12,30,31,45] validateSelection reports the run of three as a
\* consecutive issue of severity medium, and the quality is 85.
C13_RunOfThreeExample ==
    (valPc = "done" /\ valIn.numbers = << 10, 11, 12, 30, 31, 45 >>) =>
        /\ \E i \in IssuesOfType("consecutive") :
              /\ valOut.report.issues[i].severity = "medium"
              /\ valOut.report.issues[i].message = << "sequence", 3 >>
              /\ valOut.report.issues[i].data.sequences
                    = << [start |-> 10, end |-> 12, length |-> 3] >>
        /\ Cardinality(IssuesOfType("consecutive")) = 1
        /\ valOut.report.quality = 85
        /\ valOut.report.isValid

\* [10,11,12,30,31,45] has been validated.
C13_Witness ==
    /\ valPc = "done"
    /\ valIn.numbers = << 10, 11, 12, 30, 31, 45 >>
    /\ Len(valOut.report.issues) > 0


\* C14: a consecutive issue is reported exactly when the set has a run of three
\* or more numbers or more than one maximal run of exactly two; its severity is
\* high when the longest run has four or more numbers and medium otherwise.
C14_RunRule ==
    valPc = "done" =>
        /\ IssuesOfType("consecutive") # {}
              <=> (LongestRun(Given) >= 3 \/ TwoRuns(Given) > 1)
        /\ \A i \in IssuesOfType("consecutive") :
              valOut.report.issues[i].severity
                 = IF LongestRun(Given) >= 4 THEN "high" ELSE "medium"

\* A set whose only runs are two pairs has been reported with a medium issue.
C14_Witness ==
    /\ valPc = "done"
    /\ LongestRun(Given) = 2
    /\ TwoRuns(Given) = 2
    /\ \E i \in IssuesOfType("consecutive") :
          valOut.report.issues[i].severity = "medium"

\* C15: for every non-empty set of distinct numbers of 1..60, of any size, a
\* parity issue is reported exactly when the exact ratio of evens is outside
\* [0.30, 0.70]; its severity is medium exactly when that exact ratio is below
\* 0.20 or above 0.80, and low otherwise.
C15_ParityRule ==
    (valPc = "done" /\ Given \subseteq 1..60) =>
        /\ IssuesOfType("parity") # {}
              <=> \/ 10 * EvenCount(Given) < 3 * Cardinality(Given)
                  \/ 10 * EvenCount(Given) > 7 * Cardinality(Given)
        /\ \A i \in IssuesOfType("parity") :
              valOut.report.issues[i].severity
                 = IF \/ 10 * EvenCount(Given) < 2 * Cardinality(Given)
                      \/ 10 * EvenCount(Given) > 8 * Cardinality(Given)
                   THEN "medium" ELSE "low"

\* A set of more than forty numbers whose ratio of evens is above 0.70 has been
\* reported with a low issue.
C15_Witness ==
    /\ valPc = "done"
    /\ Cardinality(Given) > 40
    /\ 10 * EvenCount(Given) > 7 * Cardinality(Given)
    /\ \E i \in IssuesOfType("parity") : valOut.report.issues[i].severity = "low"

\* The documented decade-spread rule for a set S of six or more numbers.
WellSpread(S) ==
    IF Cardinality(S) >= 8
    THEN /\ \A r \in 1..3 : RangeCounts(S)[r] >= 2
         /\ 100 * LargestRange(S) <= 60 * Cardinality(S)
    ELSE IF Cardinality(S) = 7
    THEN /\ UsedRanges(S) >= 2
         /\ \A r \in 1..3 : RangeCounts(S)[r] # 1
         /\ 100 * LargestRange(S) <= 65 * Cardinality(S)
    ELSE /\ UsedRanges(S) >= 2
         /\ 100 * LargestRange(S) <= 70 * Cardinality(S)

\* C16: for a set of six or more numbers no decade-spread issue is reported
\* exactly when the documented rule of its size holds; a reported issue has
\* severity high when one range only is used and low otherwise.
C16_DecadeRule ==
    (valPc = "done" /\ Cardinality(Given) >= 6) =>
        /\ IssuesOfType("distribution") = {} <=> WellSpread(Given)
        /\ \A i \in IssuesOfType("distribution") :
              valOut.report.issues[i].severity
                 = IF UsedRanges(Given) = 1 THEN "high" ELSE "low"

\* A set of seven numbers in three ranges, one of them with a single number, has
\* been reported with a low issue.
C16_Witness ==
    /\ valPc = "done"
    /\ Cardinality(Given) = 7
    /\ UsedRanges(Given) = 3
    /\ 100 * LargestRange(Given) <= 65 * 7
    /\ \E i \in IssuesOfType("distribution") : valOut.report.issues[i].severity = "low"


(***************************************************************************)
(* Claims about the bets of a closure, over SpecDescending                 *)
(***************************************************************************)
\* The bets of attempt a that were not chosen by the participants' votes.
ScoreBets(a) == { i \in 1..Len(att[a].paths) : att[a].paths[i] # "democratic" }

\* The numbers of the i-th bet of attempt a that were already used when it was
\* generated.
Reused(a, i) == SeqToSet(att[a].finalBetsArray[i].numbers) \cap att[a].usedBefore[i]

\* C17: every bet after the flagship holds no number that was in the used-set when
\* it was generated (the used-set being emptied first when fewer than k numbers
\* were unused), whichever branch produced it.
C17_NoReuse == \A a \in Attempts : \A i \in ScoreBets(a) : Reused(a, i) = {}


(***************************************************************************)
(* Claims about selectBestNumbers, over SpecSelect                         *)
(***************************************************************************)
\* The candidate numbers in the order the greedy loop visits them.
Visited == [i \in 1..Len(selIn.candidates) |-> SortCandidates(selIn.candidates)[i].number]

\* The place of num in the visiting order ranked.
RankIn(ranked, num) == CHOOSE i \in 1..Len(ranked) : ranked[i] = num

\* The picks made before the greedy loop came to num, in the order they were made.
PickedBefore(ranked, num) ==
    SelectSeq(selGreedy.selected, LAMBDA m : RankIn(ranked, m) < RankIn(ranked, num))

\* The candidates skipped for one of reasons.
SkippedFor(reasons) ==
    { i \in 1..Len(selGreedy.skipped) : selGreedy.skipped[i].reason \in reasons }

FreeWhileUnderHalfPicked(ranked) ==
    \A i \in SkippedFor({ "distribution", "parity" }) :
        ~(2 * Len(PickedBefore(ranked, selGreedy.skipped[i].num)) < selIn.count)

FreeWhileUnderHalfWithIt(ranked) ==
    \A i \in SkippedFor({ "distribution", "parity" }) :
        ~(2 * (Len(PickedBefore(ranked, selGreedy.skipped[i].num)) + 1) < selIn.count)

\* C18 as stated, at the end of the greedy loop: no candidate it considered
\* while fewer than half of the count were picked is skipped for distribution or
\* parity.
C18_FreeWhileUnderHalfPicked == selPc = "greedy" => FreeWhileUnderHalfPicked(Visited)

\* C18, at the end of the greedy loop: no candidate it considered while the
\* picks made plus the candidate itself were fewer than half of the count is
\* skipped for distribution or parity.
C18_FreeWhileUnderHalfWithIt == selPc = "greedy" => FreeWhileUnderHalfWithIt(Visited)

\* The first pick, alone in its range, has been made under the exemption and a
\* later candidate skipped for distribution.
C18_Witness ==
    /\ selPc = "greedy"
    /\ selIn.strictness # "low"
    /\ Len(selGreedy.selected) >= 1
    /\ SkippedFor({ "distribution" }) # {}


\* The numbers selectBestNumbers returned.
Result == SeqToSet(selOut.numbers)

\* The greatest share of one range, in hundredths, allowed for a bet of count
\* numbers.
ConcentrationLimit(count) == IF count >= 8 THEN 60 ELSE IF count = 7 THEN 65 ELSE 70

\* C19: when the greedy pass fills all the picks, at strictness high the result
\* has no run of three or more and at most one run of two, its largest range
\* holds no more than the share allowed for its size, and its ratio of evens is
\* within [0.20, 0.80]; at strictness medium the first two hold and no candidate
\* is skipped for parity.
C19_GreedyResult ==
    (selPc = "done" /\ ~selOut.fallback /\ selIn.strictness # "low") =>
        /\ Cardinality(Result) = selIn.count
        /\ LongestRun(Result) < 3
        /\ TwoRuns(Result) <= 1
        /\ 100 * LargestRange(Result) <= ConcentrationLimit(selIn.count) * selIn.count
        /\ selIn.strictness = "high" =>
              /\ 10 * EvenCount(Result) >= 2 * selIn.count
              /\ 10 * EvenCount(Result) <= 8 * selIn.count
        /\ selIn.strictness = "medium" => SkippedFor({ "parity" }) = {}

\* A greedy pass at strictness high has filled all the picks after skipping
\* candidates for each of the three reasons.
C19_Witness ==
    /\ selPc = "done"
    /\ ~selOut.fallback
    /\ selIn.strictness = "high"
    /\ SkippedFor({ "consecutive" }) # {}
    /\ SkippedFor({ "distribution" }) # {}
    /\ SkippedFor({ "parity" }) # {}


\* The set T of picks, the candidate included, breaks a rule the strictness
\* enforces for a bet of count numbers: the run rule, or, once T is half of the
\* count or more, the decade rule or (at strictness high) the parity rule.
BreaksRule(T, count, strictness) ==
    /\ strictness # "low"
    /\ \/ LongestRun(T) >= 3
       \/ TwoRuns(T) > 1
       \/ /\ 2 * Cardinality(T) >= count
          /\ 100 * LargestRange(T) > ConcentrationLimit(count) * Cardinality(T)
       \/ /\ strictness = "high"
          /\ 2 * Cardinality(T) >= count
          /\ \/ 10 * EvenCount(T) < 2 * Cardinality(T)
             \/ 10 * EvenCount(T) > 8 * Cardinality(T)

\* The place in the visiting order of the last candidate that was picked.
LastPicked(ranked) ==
    CHOOSE i \in 1..Len(ranked) :
        /\ ranked[i] \in Result
        /\ \A j \in (i + 1)..Len(ranked) : ranked[j] \notin Result

PassedOverForARule(ranked) ==
    \A i \in 1..LastPicked(ranked) :
        ranked[i] \notin Result =>
            BreaksRule(SeqToSet(PickedBefore(ranked, ranked[i])) \cup { ranked[i] },
                       selIn.count, selIn.strictness)

\* C20: when the greedy pass fills all the picks, the result holds candidates
\* only, and every candidate visited before the last one picked that is not in
\* the result would, added to the picks made before it, have broken the run, the
\* decade or the parity rule.
C20_BestCandidatesWin ==
    (selPc = "done" /\ ~selOut.fallback) =>
        /\ Result \subseteq SeqToSet(Visited)
        /\ PassedOverForARule(Visited)

\* A greedy pass over candidates handed over worst first has filled all the picks
\* and passed over some candidate before the last one picked.
C20_Witness ==
    /\ selPc = "done"
    /\ ~selOut.fallback
    /\ selIn.candidates[1].score < selIn.candidates[2].score
    /\ \E i \in 1..LastPicked(Visited) : Visited[i] \notin Result

\* C21: when selectBestNumbers takes the fallback for a count of 6 to 9, the
\* wager it returns holds exactly the target of its count in each range (2/2/2,
\* 2/2/3, 3/3/2, 3/3/3 over 1-20, 21-40, 41-60), whatever the draws, and
\* getDecadeDistribution finds no issue in it.
C21_FallbackSplit ==
    (selPc = "done" /\ selOut.fallback) =>
        /\ RangeCounts(Result)
              = (CASE selIn.count = 6 -> << 2, 2, 2 >>
                   [] selIn.count = 7 -> << 2, 2, 3 >>
                   [] selIn.count = 8 -> << 3, 3, 2 >>
                   [] selIn.count = 9 -> << 3, 3, 3 >>)
        /\ getDecadeDistribution(selOut.numbers).isWellDistributed

\* A fallback for seven numbers that drew with at least one draw other than zero,
\* after a greedy pass that had picked numbers of the high range.
C21_Witness ==
    /\ selPc = "done"
    /\ selOut.fallback
    /\ selIn.count = 7
    /\ \E i \in 1..Len(selGreedy.selected) : selGreedy.selected[i] > 40
    /\ selOut.numbers[1] > 1

(***************************************************************************)
(* Claims about the closure record, over Spec                              *)
(***************************************************************************)
RECURSIVE ExpandPlan(_, _, _, _)
\* The size and cost of each wager a distribution asks for, group by group.
ExpandPlan(dist, g, made, acc) ==
    IF g > Len(dist) THEN acc
    ELSE IF made = dist[g].count THEN ExpandPlan(dist, g + 1, 0, acc)
    ELSE ExpandPlan(dist, g, made + 1,
                    Append(acc, [size |-> dist[g].numbers, cost |-> dist[g].cost]))

RECURSIVE SumCosts(_, _)
SumCosts(bets, i) == IF i > Len(bets) THEN 0 ELSE bets[i].cost + SumCosts(bets, i + 1)

\* The attempts that returned success.
Succeeded == { a \in Attempts : att[a].pc = "done" }

\* The wagers of the record of attempt a, and the plan they were generated from.
WagersOf(a) == att[a].closureData.finalBets

FinancialsOf(a) == att[a].financials

Persisted == Stored.closure_data

\* The names the record lists under the number n.
NamesUnder(record, n) ==
    IF n \in DOMAIN record.numberToUsers THEN SeqToSet(record.numberToUsers[n]) ELSE {}

\* The sum of the quotas of the participations whose user is among users.
QuotasOf(base, users) ==
    SumQuotas(SelectSeq(base.participations, LAMBDA p : p.users.id \in users), 1)

\* C23: in every stored closure record the votes are one snapshot: a name is
\* listed under the number n exactly when a participant of the record with that
\* name has n among the selected numbers, and the total funds are the quotas of
\* the record's participants at the quota value.
C23_OneSnapshot ==
    Stored.status = CLOSED =>
        /\ \A n \in 1..60 :
              NamesUnder(Persisted, n)
                 = { Persisted.participants[i].name :
                       i \in { j \in 1..Len(Persisted.participants) :
                                 Includes(Persisted.participants[j].selectedNumbers, n) } }
        /\ Persisted.totalFunds
              = Persisted.quotaValue
                   * QuotasOf(db[1], { Persisted.participants[i].userId :
                                          i \in 1..Len(Persisted.participants) })

\* The numbers stored as the selection of the user userId.
StoredNumbers(base, userId) ==
    { base.number_selections[i].number :
        i \in { j \in 1..Len(base.number_selections) :
                  \E k \in 1..Len(base.participations) :
                     /\ base.participations[k].users.id = userId
                     /\ base.participations[k].id
                           = base.number_selections[j].participation_id } }

\* C24: after a successful closure every participant of the closure record has
\* a selection that is not empty, and the numbers the record shows for them are
\* the ones stored as their selection.
C24_EveryoneHasNumbers ==
    \A a \in Succeeded :
        \A i \in 1..Len(att[a].closureData.participants) :
            /\ Len(att[a].closureData.participants[i].selectedNumbers) > 0
            /\ SeqToSet(att[a].closureData.participants[i].selectedNumbers)
                  = StoredNumbers(db[1], att[a].closureData.participants[i].userId)

\* C25: once an attempt has returned success, the wager rows stored for the pool
\* are the wagers of the stored closure record, in number and in numbers; and
\* whenever the pool is closed the stored hash is the hash of the stored record.
C25_StoredWagersMatchRecord ==
    /\ Stored.status = CLOSED => Stored.closure_hash = generateClosureHash(Persisted)
    /\ Succeeded # {} =>
          db[1].final_bets = BetsToInsert(PoolId, Persisted.finalBets, 1, << >>)

(***************************************************************************)
(* More claims about selectBestNumbers, over SpecSelect                    *)
(***************************************************************************)
\* C26: when the greedy pass picks fewer numbers than count, none of its picks is
\* in the wager selectBestNumbers returns.
C26_FallbackDropsPicks ==
    (selPc = "done" /\ selOut.fallback) => Result \cap SeqToSet(selGreedy.selected) = {}

\* A fallback for six numbers has replaced a greedy selection of three or more
\* picks, the number 1 among them.
C26_Witness ==
    /\ selPc = "done"
    /\ selOut.fallback
    /\ selIn.count = 6
    /\ Len(selGreedy.selected) >= 3
    /\ Includes(selGreedy.selected, 1)

(***************************************************************************)
(* More claims about calculateBetLevel, over SpecBets                      *)
(***************************************************************************)
\* The entries of the computed plan.
Entries == betInfo.betDistribution

\* C27: the plan calculateBetLevel returns for funds of 6 or more is consistent:
\* its entries have different sizes, in strictly descending order, each with a
\* count of 1 or more; totalBets is the sum of the counts; the remaining funds
\* are the funds less the sum of count x cost, and are not negative; betLevel is
\* the largest size; surplusBets is totalBets less the count of the largest entry.
C27_PlanConsistent ==
    (betInfo.computed /\ totalFunds >= 6) =>
        /\ Len(Entries) >= 1
        /\ \A i \in 1..(Len(Entries) - 1) : Entries[i].numbers > Entries[i + 1].numbers
        /\ \A i \in 1..Len(Entries) : Entries[i].count >= 1
        /\ \A i \in 1..Len(Entries) :
              \E j \in 1..Len(BET_LEVELS) :
                 /\ BET_LEVELS[j].numbers = Entries[i].numbers
                 /\ BET_LEVELS[j].cost = Entries[i].cost
        /\ betInfo.totalBets = SumCounts(Entries, 1)
        /\ betInfo.remainingFunds = betInfo.totalFunds - PlanCost(Entries, 1)
        /\ betInfo.remainingFunds >= 0
        /\ betInfo.totalFunds = totalFunds
        /\ betInfo.betLevel = Entries[1].numbers
        /\ \A i \in 1..Len(Entries) : Entries[i].numbers <= betInfo.betLevel
        /\ betInfo.surplusBets = betInfo.totalBets - Entries[1].count

\* A plan of three entries or more, with two bets or more of its largest size,
\* has been computed.
C27_Witness ==
    /\ betInfo.computed
    /\ Len(Entries) >= 3
    /\ Entries[1].count >= 2
    /\ betInfo.surplusBets >= 2

(***************************************************************************)
(* More claims about validateSelection, over SpecValidate                  *)
(***************************************************************************)
\* C28: for every non-empty list of distinct numbers of 1..60, a report without
\* issues has a quality of 90 or more and is valid; a report that is not valid
\* has at least one issue.
C28_NoIssueMeansGoodScore ==
    (valPc = "done" /\ Given \subseteq 1..60) =>
        /\ Len(valOut.report.issues) = 0 =>
              (valOut.report.quality >= 90 /\ valOut.report.isValid)
        /\ ~valOut.report.isValid => Len(valOut.report.issues) > 0

\* A list without issues whose quality is exactly 90 has been reported.
C28_Witness ==
    /\ valPc = "done"
    /\ Len(valOut.report.issues) = 0
    /\ valOut.report.quality = 90

\* The types of the issues of a report.
TypesOf(report) == { report.issues[i].type : i \in 1..Len(report.issues) }

\* C29: the later rules are never more lenient than the earlier ones: for every
\* list of distinct numbers of 1..60 the later quality is not above the earlier
\* one, every type of issue the earlier validateSelection reports is reported by
\* the later one, and a candidate the earlier wouldCreateConsecutive rejects is
\* rejected by the later one.
C29_LaterRulesStricter ==
    (valPc = "done" /\ Given \subseteq 1..60) =>
        /\ valOut.report.quality <= valOut.earlierReport.quality
        /\ valOut.report.isValid => valOut.earlierReport.isValid
        /\ TypesOf(valOut.earlierReport) \subseteq TypesOf(valOut.report)
        /\ valOut.earlierRejects => valOut.rejects

\* Both versions report a run for a list, and the later one scores it lower; its
\* last number is rejected by both.
C29_Witness ==
    /\ valPc = "done"
    /\ "consecutive" \in TypesOf(valOut.earlierReport)
    /\ valOut.report.quality < valOut.earlierReport.quality
    /\ valOut.earlierRejects
    /\ valOut.rejects

(***************************************************************************)
(* dashboard.js: the number grid of the participant's page                 *)
(***************************************************************************)
\* The grid has one button for each number of 1..60; the model presses the
\* buttons of the first GridShown numbers and of the last one.
GridShown == 6

GridButtons == { i \in 1..60 : i <= GridShown \/ i = 60 }

\* Array.prototype.indexOf, counted from 1; 0 where JavaScript returns -1.
indexOf(array, num) ==
    IF \E i \in 1..Len(array) : array[i] = num
    THEN CHOOSE i \in 1..Len(array) :
             /\ array[i] = num
             /\ \A j \in 1..(i - 1) : array[j] /= num
    ELSE 0

\* array.splice(index, 1)
splice(array, index) ==
    SubSeq(array, 1, index - 1) \o SubSeq(array, index + 1, Len(array))

\* toggleNumber without the check of the length before the push.
toggleNumberNoLimit(selected, num) ==
    IF indexOf(selected, num) > 0
    THEN splice(selected, indexOf(selected, num))
    ELSE Append(selected, num)

\* toggleNumber(num, btn): the selectedNumbers array it leaves.
toggleNumber(selected, num) ==
    IF indexOf(selected, num) > 0
    THEN splice(selected, indexOf(selected, num))
    ELSE IF Len(selected) >= 6
         THEN selected
         ELSE Append(selected, num)

\* handleConfirmSelection(): the call of api.selectNumbers it makes, if any.
handleConfirmSelection(selected) ==
    IF Len(selected) /= 6
    THEN NoApiCall
    ELSE [sent |-> TRUE, numbers |-> selected]

\* What the server may answer to GET /api/numbers/generate and to
\* GET /api/numbers/my-selections: the page checks response.success and
\* response.numbers and nothing else, so the answers include no number, fewer
\* than six, six, and more than six numbers.
ServerNumbers ==
    { AscendingList({ i \in GridButtons : i <= k }) : k \in { 0, 3, 6, 60 } }
        \cup { << 1, 2, 3, 4, 5, 60 >> }

ServerResponses ==
    { [success |-> TRUE, numbers |-> n] : n \in ServerNumbers }
        \cup { [success |-> FALSE, numbers |-> << >>] }

\* handleAutoGenerate() once api.generateNumbers() has answered: the array and
\* the call of api.selectNumbers it makes. An empty array is truthy, so only
\* response.success is a condition here.
handleAutoGenerate(selected, response) ==
    IF response.success
    THEN [selected |-> response.numbers,
          call     |-> [sent |-> TRUE, numbers |-> response.numbers]]
    ELSE [selected |-> selected, call |-> NoApiCall]

\* loadMySelections() once api.getMySelections() has answered.
loadMySelections(selected, response) ==
    IF response.success /\ Len(response.numbers) > 0
    THEN response.numbers
    ELSE selected

\* The properties the grid handlers are to keep: no number twice, numbers of
\* 1..60, at most six of them.
ValidSelection(selected) ==
    /\ \A i, j \in 1..Len(selected) : selected[i] = selected[j] => i = j
    /\ \A i \in 1..Len(selected) : selected[i] \in 1..60
    /\ Len(selected) <= 6

\* The page starts with the selection the server returned (loadMySelections),
\* or with the empty array: at most six distinct numbers.
InitDash ==
    /\ BetsIdle
    /\ SelIdle
    /\ ValIdle
    /\ CloseIdle
    /\ \E S \in SUBSET GridButtons :
          /\ Cardinality(S) <= 6
          /\ selectedNumbers = AscendingList(S)
    /\ apiCall = NoApiCall

\* A click on the button of one number of the grid.
ToggleNumber ==
    /\ \E num \in GridButtons :
          selectedNumbers' = toggleNumber(selectedNumbers, num)
    /\ apiCall' = NoApiCall
    /\ UNCHANGED << betVars, selVars, valVars, closeVars >>

\* A click on "clear".
ClearSelection ==
    /\ selectedNumbers' = << >>
    /\ apiCall' = NoApiCall
    /\ UNCHANGED << betVars, selVars, valVars, closeVars >>

\* A click on "confirm".
ConfirmSelection ==
    /\ apiCall' = handleConfirmSelection(selectedNumbers)
    /\ UNCHANGED << selectedNumbers, betVars, selVars, valVars, closeVars >>

\* A click on "generate automatically", from the answer of the server on.
HandleAutoGenerate ==
    /\ \E response \in ServerResponses :
          /\ selectedNumbers' =
                 handleAutoGenerate(selectedNumbers, response).selected
          /\ apiCall' = handleAutoGenerate(selectedNumbers, response).call
    /\ UNCHANGED << betVars, selVars, valVars, closeVars >>

\* refreshData(), run by the timer every 30 s: its loadMySelections step, from
\* the answer of the server on.
LoadMySelections ==
    /\ \E response \in ServerResponses :
          selectedNumbers' = loadMySelections(selectedNumbers, response)
    /\ apiCall' = NoApiCall
    /\ UNCHANGED << betVars, selVars, valVars, closeVars >>

NextDash ==
    \/ ToggleNumber
    \/ ClearSelection
    \/ ConfirmSelection
    \/ HandleAutoGenerate
    \/ LoadMySelections

SpecDash == InitDash /\ [][NextDash]_vars

\* C30: a click on a grid button or on "clear" that finds selectedNumbers with
\* no number twice, only numbers of 1..60 and at most six of them leaves it so;
\* and a click on "confirm" hands a request to api.selectNumbers only with
\* exactly six numbers.
C30_SelectionStaysValid ==
    [][ /\ (ToggleNumber \/ ClearSelection) /\ ValidSelection(selectedNumbers)
            => ValidSelection(selectedNumbers')
        /\ ConfirmSelection /\ apiCall'.sent
            => Len(apiCall'.numbers) = 6 /\ apiCall'.numbers = selectedNumbers
      ]_vars

\* Six numbers picked in an order that is not ascending, so by clicks, and sent.
C30_Witness ==
    /\ apiCall.sent
    /\ apiCall.numbers = selectedNumbers
    /\ Len(selectedNumbers) = 6
    /\ selectedNumbers[1] = 60
    /\ selectedNumbers[6] = 1

=============================================================================
